---- MODULE Spec2Model ----
(***************************************************************************)
(* Party-wall detection of CityDPC (citydpc/tools/partywall.py) and the    *)
(* objects it works on.  Spec is the detection over a dataset;             *)
(* SpecSurface constructs single SurfaceGML objects, SpecRotation rotates  *)
(* points about a centre and back, SpecWarnings is the warning             *)
(* configuration of the package.  SpecShape derives the attributes of a    *)
(* SurfaceGML object and updates an envelope from it; SpecBuilding,        *)
(* SpecGeometry and SpecDataset fill the geometries of a building, the     *)
(* surfaces of a geometry and the buildings of a dataset.                  *)
(*                                                                         *)
(* Numbers.  The program computes with floats.  Here every length is an    *)
(* integer number of units of 0.05, so 0.10 = 2, 0.15 = 3, 0.20 = 4,       *)
(* 0.3 = 6, 5 = 100 and 10 = 200; an area of 1 is 400 square units.  A     *)
(* unit normal is kept as the primitive integer vector of its direction    *)
(* (the cross product divided by the gcd of its components), and every     *)
(* comparison of cosines is done exactly on those integers.  All numbers   *)
(* stay below 2^31.                                                        *)
(*                                                                         *)
(* Geometry.  Wall and closure surfaces are vertical polygons whose edges  *)
(* are horizontal or vertical; ground surfaces are axis-aligned            *)
(* rectangles.  For these the polygon clipping of shapely is computed      *)
(* exactly on the grid spanned by the vertices of the two polygons.        *)
(***************************************************************************)
EXTENDS Integers, Sequences, FiniteSets, Bags, TLC

----------------------------------------------------------------------------
(* Arithmetic helpers *)

Abs(x) == IF x < 0 THEN -x ELSE x

Range(s) == {s[i] : i \in DOMAIN s}

SetMin(S) == CHOOSE x \in S : \A y \in S : x <= y

SetMax(S) == CHOOSE x \in S : \A y \in S : x >= y

RECURSIVE Gcd(_, _)
Gcd(a, b) == IF b = 0 THEN a ELSE Gcd(b, a % b)

RECURSIVE SqrtIter(_, _)
SqrtIter(n, x) ==
    LET y == (x + (n \div x)) \div 2
    IN  IF y >= x THEN x ELSE SqrtIter(n, y)

\* floor of the square root
ISqrt(n) == IF n = 0 THEN 0 ELSE SqrtIter(n, n)

\* a / b rounded to the nearest integer, b > 0
RoundDiv(a, b) == (2 * a + b) \div (2 * b)

RECURSIVE SumSeq(_)
SumSeq(s) == IF s = <<>> THEN 0 ELSE Head(s) + SumSeq(Tail(s))

RECURSIVE SetSum(_)
SetSum(S) ==
    IF S = {} THEN 0
    ELSE LET x == CHOOSE x \in S : TRUE IN x[2] + SetSum(S \ {x})

RECURSIVE SeqOfSet(_)
SeqOfSet(S) ==
    IF S = {} THEN <<>>
    ELSE LET x == CHOOSE x \in S : TRUE IN <<x>> \o SeqOfSet(S \ {x})

\* <<floor(n * 10^k / d), remainder>> by long division, 0 <= n <= d, d > 0
RECURSIVE Frac(_, _, _)
Frac(n, d, k) ==
    IF k = 0 THEN <<n \div d, n % d>>
    ELSE LET r == Frac(n, d, k - 1)
         IN  <<r[1] * 10 + ((r[2] * 10) \div d), (r[2] * 10) % d>>

----------------------------------------------------------------------------
(* Vectors *)

Vsub(p, q) == <<p[1] - q[1], p[2] - q[2], p[3] - q[3]>>

Vneg(a) == <<-a[1], -a[2], -a[3]>>

Vdot(a, b) == a[1] * b[1] + a[2] * b[2] + a[3] * b[3]

Vcross(a, b) ==
    <<a[2] * b[3] - a[3] * b[2],
      a[3] * b[1] - a[1] * b[3],
      a[1] * b[2] - a[2] * b[1]>>

\* SurfaceGML._calculate_unit_normal: the direction of (p2 - p1) x (p3 - p1),
\* the zero vector if the three points are collinear
_calculate_unit_normal(p1, p2, p3) ==
    LET c == Vcross(Vsub(p2, p1), Vsub(p3, p1))
        g == Gcd(Gcd(Abs(c[1]), Abs(c[2])), Abs(c[3]))
    IN  IF g = 0 THEN <<0, 0, 0>>
        ELSE <<c[1] \div g, c[2] \div g, c[3] \div g>>

----------------------------------------------------------------------------
(* Program constants, in the units of this module *)

\* cosine limit of the normal test, in 1/10000 (partywall.py:170, 0.9659)
COS_LIMIT == 9659

\* largest distance of two party walls (partywall.py:220, 0.15)
MAX_WALL_DISTANCE == 3

\* an intersection must be larger than this (partywall.py:233, 5 square units)
MIN_AREA == 2000

\* default buffer of a ground polygon (partywall.py:299, 0.15)
BUFFER == 3

----------------------------------------------------------------------------
(* Surfaces.  A surface is the record a SurfaceGML object is after its     *)
(* construction: polygon_id, surface_type, isSurface, gml_surface (the     *)
(* points kept of the ring given, first point repeated as last),           *)
(* gml_surface_2array, normal_uni and surface_area.  An invalid surface    *)
(* (isSurface FALSE) has normal_uni and surface_area None and no           *)
(* gml_surface_2array; these are the empty tuple here, and a surface_area  *)
(* that is a number a is the tuple <<a>>.                                  *)

None == <<>>

\* SurfaceConfig.DISTANCE_BETWEEN_LINE_AND_POINT, 0.01: 1/5 of the length unit
DISTANCE_BETWEEN_LINE_AND_POINT == <<1, 5>>

\* SurfaceGML.check_if_points_on_line(p, a, b) returns the point p and not
\* None: p is no farther than DISTANCE_BETWEEN_LINE_AND_POINT from the
\* segment from a to b.  s, t, h and c are those of the code times the
\* length of b - a; for a = b the code computes with nan and returns None.
check_if_points_on_line(p, a, b) ==
    LET ab  == Vsub(b, a)
        s   == Vdot(Vsub(a, p), ab)
        t   == Vdot(Vsub(p, b), ab)
        h   == SetMax({s, t, 0})
        c   == Vcross(Vsub(p, a), ab)
        lim == (DISTANCE_BETWEEN_LINE_AND_POINT[1] * DISTANCE_BETWEEN_LINE_AND_POINT[1]
                * Vdot(ab, ab))
               \div (DISTANCE_BETWEEN_LINE_AND_POINT[2] * DISTANCE_BETWEEN_LINE_AND_POINT[2])
        r   == ISqrt(lim)
    IN  /\ Vdot(ab, ab) # 0
        /\ h <= r
        /\ \A n \in 1..3 : Abs(c[n]) <= r
        /\ h * h + Vdot(c, c) <= lim

\* surfacegml.py:48-57: the points n_wise and check_if_points_on_line report;
\* every point but the first and the last is the middle of one window
useless_points(split_surface) ==
    {split_surface[n + 1] : n \in {w \in 1..(Len(split_surface) - 2) :
        check_if_points_on_line(split_surface[w + 1], split_surface[w],
                                split_surface[w + 2])}}

\* list.remove(element): the list without the first element equal to it
ListRemove(list, element) ==
    LET first == SetMin({n \in DOMAIN list : list[n] = element})
    IN  SubSeq(list, 1, first - 1) \o SubSeq(list, first + 1, Len(list))

\* surfacegml.py:58-60: the loop over split_surface that removes from the
\* list it runs over; idx is the position of the list iterator, which moves
\* on by one whether or not an element was removed
RECURSIVE RemoveUseless(_, _, _)
RemoveUseless(split_surface, useless, idx) ==
    IF idx > Len(split_surface) THEN split_surface
    ELSE RemoveUseless(IF split_surface[idx] \in useless
                       THEN ListRemove(split_surface, split_surface[idx])
                       ELSE split_surface,
                       useless, idx + 1)

\* variant: three points are enough for a surface
EnoughPoints_3(gml_surface) == Len(gml_surface) >= 3

\* surfacegml.py:62: not len(self.gml_surface) < 12, four points or more
EnoughPoints(gml_surface) == Len(gml_surface) >= 4

Vadd(a, b) == <<a[1] + b[1], a[2] + b[2], a[3] + b[3]>>

RECURSIVE VsumSeq(_)
VsumSeq(s) == IF s = <<>> THEN <<0, 0, 0>> ELSE Vadd(Head(s), VsumSeq(Tail(s)))

\* SurfaceGML.poly_area with normal_uni along the vector normal, in whole
\* area units (exact for a normal along an axis, to the nearest unit of the
\* length of the normal otherwise); 0 for the zero normal
poly_area(poly, normal) ==
    IF Len(poly) < 3 THEN 0
    ELSE LET total == VsumSeq([n \in DOMAIN poly |->
                                 Vcross(poly[n], poly[(n % Len(poly)) + 1])])
         IN  IF normal = <<0, 0, 0>> THEN 0
             ELSE Abs(Vdot(total, normal)) \div (2 * ISqrt(Vdot(normal, normal)))

\* SurfaceGML.__init__, surfacegml.py:32-96, for a surface type that is given
SurfaceGML(pid, type, ring) ==
    LET gml_surface == RemoveUseless(ring, useless_points(ring), 1)
    IN  IF ~EnoughPoints(gml_surface)
        THEN [polygon_id |-> pid, surface_type |-> type, isSurface |-> FALSE,
              gml_surface |-> gml_surface,
              gml_surface_2array |-> None, normal_uni |-> None,
              surface_area |-> None]
        ELSE LET normal == _calculate_unit_normal(gml_surface[1], gml_surface[2],
                                                  gml_surface[3])
             IN  [polygon_id |-> pid, surface_type |-> type, isSurface |-> TRUE,
                  gml_surface |-> gml_surface,
                  gml_surface_2array |-> gml_surface, normal_uni |-> normal,
                  surface_area |-> <<poly_area(gml_surface, normal)>>]

----------------------------------------------------------------------------
(* The normal test of _find_party_walls *)

\* np.abs(np.dot(n0, n1)) > limit / 10000 for the unit vectors along n0, n1
AbsDotExceeds(n0, n1, limit) ==
    LET d  == Vdot(n0, n1)
        dd == Vdot(n0, n0) * Vdot(n1, n1)
        f  == Frac(d * d, dd, 8)
    IN  /\ dd > 0
        /\ \/ f[1] > limit * limit
           \/ f[1] = limit * limit /\ f[2] > 0

\* variant: the gate without the opposite normals and without the absolute
\* value of the dot product
NormalsAligned_same_direction(n0, n1) ==
    \/ n0 = n1
    \/ Vdot(n0, n1) > 0 /\ AbsDotExceeds(n0, n1, COS_LIMIT)

\* variant: the gate with a tolerance of about 25 degrees (cosine 0.9)
NormalsAligned_loose(n0, n1) ==
    \/ n0 = n1
    \/ n0 = Vneg(n1)
    \/ AbsDotExceeds(n0, n1, 9000)

\* partywall.py:167-171
NormalsAligned(n0, n1) ==
    \/ n0 = n1
    \/ n0 = Vneg(n1)
    \/ AbsDotExceeds(n0, n1, COS_LIMIT)

----------------------------------------------------------------------------
(* Rotation in the x-y plane.  An angle is the pair <<c, s>> of integers   *)
(* with cos = c / l and sin = s / l, l the length of <<c, s>>; None when   *)
(* no rotation is needed.  Where l is not an integer the rotated           *)
(* coordinates are rounded to the nearest unit.                            *)

RotatePoint(point, rotation_center, rot_angle) ==
    LET c    == rot_angle[1]
        s    == rot_angle[2]
        l100 == ISqrt(10000 * (c * c + s * s))
        dx   == point[1] - rotation_center[1]
        dy   == point[2] - rotation_center[2]
    IN  <<rotation_center[1] + RoundDiv(100 * (c * dx - s * dy), l100),
          rotation_center[2] + RoundDiv(100 * (s * dx + c * dy), l100),
          point[3]>>

\* partywall.py:355-382
_rotate_polygon_around_point_in_x_y(polygon, rotation_center, rot_angle) ==
    [i \in DOMAIN polygon |-> RotatePoint(polygon[i], rotation_center, rot_angle)]

\* variant: the angle is not negated
NegAngle_same(rot_angle) == rot_angle

\* -rot_angle
NegAngle(rot_angle) == <<rot_angle[1], -rot_angle[2]>>

\* partywall.py:189-203: the angle -atan2(delta_y, delta_x) that turns the
\* first edge of surface_0 onto the x axis, pi/2 when delta_x is 0
RotationAngle(t_surf_0) ==
    LET k  == IF t_surf_0[1][1] = t_surf_0[2][1] /\ t_surf_0[1][2] = t_surf_0[2][2]
              THEN 3 ELSE 2
        delta_x == t_surf_0[1][1] - t_surf_0[k][1]
        delta_y == t_surf_0[1][2] - t_surf_0[k][2]
        g  == Gcd(Abs(delta_x), Abs(delta_y))
    IN  IF delta_x = 0 THEN <<0, 1>>
        ELSE <<delta_x \div g, -(delta_y \div g)>>

\* variant: the offset gate at 0.25 instead of 0.15
TooFarApart_wide(poly_0_rotated, poly_1_rotated) ==
    LET n0 == Len(poly_0_rotated)
        n1 == Len(poly_1_rotated)
        s0 == SumSeq([i \in 1..n0 |-> poly_0_rotated[i][2]])
        s1 == SumSeq([i \in 1..n1 |-> poly_1_rotated[i][2]])
    IN  Abs(s0 * n1 - s1 * n0) > 5 * n0 * n1

\* variant: the offset gate without the absolute value
TooFarApart_signed(poly_0_rotated, poly_1_rotated) ==
    LET n0 == Len(poly_0_rotated)
        n1 == Len(poly_1_rotated)
        s0 == SumSeq([i \in 1..n0 |-> poly_0_rotated[i][2]])
        s1 == SumSeq([i \in 1..n1 |-> poly_1_rotated[i][2]])
    IN  s0 * n1 - s1 * n0 > MAX_WALL_DISTANCE * n0 * n1

\* partywall.py:215-222: the means of the rotated y coordinates differ by
\* more than 0.15
TooFarApart(poly_0_rotated, poly_1_rotated) ==
    LET n0 == Len(poly_0_rotated)
        n1 == Len(poly_1_rotated)
        s0 == SumSeq([i \in 1..n0 |-> poly_0_rotated[i][2]])
        s1 == SumSeq([i \in 1..n1 |-> poly_1_rotated[i][2]])
    IN  Abs(s0 * n1 - s1 * n0) > MAX_WALL_DISTANCE * n0 * n1

\* np.delete(poly, 1, axis=1): the ring in the (x, z) plane
Delete2ndAxis(poly) == [i \in DOMAIN poly |-> <<poly[i][1], poly[i][3]>>]

----------------------------------------------------------------------------
(* shapely: intersection of two polygons whose edges are parallel to the   *)
(* axes.  A cell <<xa, xb, za, zb>> is a rectangle of the grid spanned by  *)
(* the vertices of the two rings.                                          *)

Steps(V) == {ab \in V \X V : ab[1] < ab[2] /\ \A v \in V : ~(ab[1] < v /\ v < ab[2])}

Cells(p_0, p_1) ==
    LET pts == Range(p_0) \cup Range(p_1)
        XI  == Steps({q[1] : q \in pts})
        ZI  == Steps({q[2] : q \in pts})
    IN  {<<x[1], x[2], z[1], z[2]>> : x \in XI, z \in ZI}

\* the centre of the cell lies inside the ring (even-odd rule on the
\* vertical edges right of the centre)
Inside(ring, cell) ==
    LET hit(i) ==
            /\ ring[i][1] = ring[i + 1][1]
            /\ 2 * ring[i][1] > cell[1] + cell[2]
            /\ LET lo == IF ring[i][2] < ring[i + 1][2] THEN ring[i][2] ELSE ring[i + 1][2]
                   hi == IF ring[i][2] < ring[i + 1][2] THEN ring[i + 1][2] ELSE ring[i][2]
               IN  2 * lo < cell[3] + cell[4] /\ cell[3] + cell[4] < 2 * hi
    IN  Cardinality({i \in 1..(Len(ring) - 1) : hit(i)}) % 2 = 1

Adjacent(c, d) ==
    \/ c[3] = d[3] /\ c[4] = d[4] /\ (c[2] = d[1] \/ d[2] = c[1])
    \/ c[1] = d[1] /\ c[2] = d[2] /\ (c[4] = d[3] \/ d[4] = c[3])

RECURSIVE Grow(_, _)
Grow(S, I) ==
    LET T == S \cup {c \in I : \E d \in S : Adjacent(c, d)}
    IN  IF T = S THEN S ELSE Grow(T, I)

\* the connected pieces of a set of cells
RECURSIVE Pieces(_)
Pieces(I) ==
    IF I = {} THEN {}
    ELSE LET c    == CHOOSE c \in I : TRUE
             comp == Grow({c}, I)
         IN  {comp} \cup Pieces(I \ comp)

CellArea(c) == (c[2] - c[1]) * (c[4] - c[3])

PieceArea(piece) == SetSum({<<c, CellArea(c)>> : c \in piece})

\* the cells that have the grid node n as a corner
NodeCells(all, n) == {c \in all : n[1] \in {c[1], c[2]} /\ n[2] \in {c[3], c[4]}}

\* the cells on the two sides of a grid edge from node a to node b
EdgeCells(all, a, b) == NodeCells(all, a) \cap NodeCells(all, b)

\* p_0.intersection(p_1): the common cells, and whether the two closed
\* polygons also share a point or a line that bounds no common cell
Intersection(p_0, p_1) ==
    LET all  == Cells(p_0, p_1)
        in0  == {c \in all : Inside(p_0, c)}
        in1  == {c \in all : Inside(p_1, c)}
        both == in0 \cap in1
        pts  == Range(p_0) \cup Range(p_1)
        nodes == {q[1] : q \in pts} \X {q[2] : q \in pts}
        loneNode(n) ==
            /\ NodeCells(in0, n) # {}
            /\ NodeCells(in1, n) # {}
            /\ NodeCells(both, n) = {}
        loneEdge(a, b) ==
            /\ a # b
            /\ a[1] = b[1] \/ a[2] = b[2]
            /\ EdgeCells(all, a, b) # {}
            /\ EdgeCells(in0, a, b) # {}
            /\ EdgeCells(in1, a, b) # {}
            /\ EdgeCells(both, a, b) = {}
    IN  [cells |-> both,
         lower |-> \/ \E n \in nodes : loneNode(n)
                   \/ \E a \in nodes : \E b \in nodes : loneEdge(a, b)]

\* the type shapely gives the result
GeomType(intersection) ==
    IF intersection.cells = {}
    THEN IF intersection.lower THEN "LineStringOrPoint" ELSE "Empty"
    ELSE IF intersection.lower THEN "GeometryCollection"
    ELSE IF Cardinality(Pieces(intersection.cells)) = 1 THEN "Polygon"
    ELSE "MultiPolygon"

\* the vertices of the exterior ring of a piece
Exterior(piece) ==
    LET nodes == UNION {{<<c[1], c[3]>>, <<c[1], c[4]>>, <<c[2], c[3]>>, <<c[2], c[4]>>} :
                        c \in piece}
        corner(n) ==
            LET inc == NodeCells(piece, n)
            IN  \/ Cardinality(inc) \in {1, 3}
                \/ Cardinality(inc) = 2 /\ \A c \in inc : \A d \in inc : c = d \/ ~Adjacent(c, d)
    IN  {n \in nodes : corner(n)}

\* partywall.py:319-352; the ring is kept as the set of its points
_get_collision_unrotated(intersection_poly, rotation_center, rot_angle, target_y) ==
    LET n == {<<q[1], target_y, q[2]>> : q \in Exterior(intersection_poly)}
    IN  IF rot_angle # None
        THEN {RotatePoint(q, rotation_center, NegAngle(rot_angle)) : q \in n}
        ELSE n

----------------------------------------------------------------------------
(* Building-like entities.  An entity is a record gml_id,                  *)
(* is_building_part, parent_gml_id, geometries (the surfaces lists of its  *)
(* GeometryGML objects, in insertion order) and building_parts.            *)

Building(id, geometries, parts) ==
    [gml_id |-> id, is_building_part |-> FALSE, parent_gml_id |-> "",
     geometries |-> geometries, building_parts |-> parts]

BuildingPart(id, parent, geometries) ==
    [gml_id |-> id, is_building_part |-> TRUE, parent_gml_id |-> parent,
     geometries |-> geometries, building_parts |-> <<>>]

RECURSIVE Concat(_)
Concat(ss) == IF ss = <<>> THEN <<>> ELSE Head(ss) \o Concat(Tail(ss))

\* GeometryGML.get_surfaces (surfaceTypes never empty here)
geometry_get_surfaces(surfaces, surfaceTypes) ==
    SelectSeq(surfaces, LAMBDA surface : surface.surface_type \in surfaceTypes)

\* AbstractBuilding.get_surfaces
get_surfaces(building, surfaceTypes) ==
    Concat([g \in DOMAIN building.geometries |->
               geometry_get_surfaces(building.geometries[g], surfaceTypes)])

\* AbstractBuilding.has_3Dgeometry
has_3Dgeometry(building) ==
    \E g \in DOMAIN building.geometries :
        LET geometry == building.geometries[g]
        IN  /\ geometry_get_surfaces(geometry, {"RoofSurface"}) # <<>>
            /\ geometry_get_surfaces(geometry, {"GroundSurface"}) # <<>>
            /\ \/ geometry_get_surfaces(geometry, {"WallSurface"}) # <<>>
               \/ geometry_get_surfaces(geometry, {"ClosureSurface"}) # <<>>

has_building_parts(building) == building.building_parts # <<>>

get_building_parts(building) == building.building_parts

\* the identifier a record carries (partywall.py:234-247); the counters
\* allWalls and freeWalls of an entity are kept under it too
QualifiedId(buildingLike) ==
    IF ~buildingLike.is_building_part THEN buildingLike.gml_id
    ELSE buildingLike.parent_gml_id \o "/" \o buildingLike.gml_id

----------------------------------------------------------------------------
(* The wall-pair resolver, partywall.py:137-295 *)

NoRecords == [raised |-> "", recs |-> <<>>]

\* variant: the area gate at 3 instead of 5
LargeEnough_3(area) == area > 1200

\* partywall.py:233 and 273
LargeEnough(area) == area > MIN_AREA

\* partywall.py:248-293: the records of one intersection that passed the
\* area test of line 233, by the type of the intersection
SectionsRecorded(intersection) ==
    LET type == GeomType(intersection)
    IN  IF type = "Polygon" THEN <<intersection.cells>>
        ELSE IF type = "GeometryCollection"
        THEN SelectSeq(SeqOfSet(Pieces(intersection.cells)),
                       LAMBDA section : LargeEnough(PieceArea(section)))
        ELSE <<>>

\* partywall.py:173-211: the frame in which surface_0 lies in a plane of
\* constant y
Frame(surface_0) ==
    LET t_surf_0  == surface_0.gml_surface_2array
        unrotated == \/ surface_0.normal_uni = <<0, 1, 0>>
                     \/ surface_0.normal_uni = <<0, -1, 0>>
    IN  [rad_angle |-> IF unrotated THEN None ELSE RotationAngle(t_surf_0),
         rot_point |-> IF unrotated THEN None ELSE t_surf_0[1],
         target_y  |-> t_surf_0[1][2]]

\* poly_0_rotated and poly_1_rotated of lines 176-211
Rotated(frame, surface) ==
    IF frame.rad_angle = None THEN surface.gml_surface_2array
    ELSE _rotate_polygon_around_point_in_x_y(surface.gml_surface_2array,
                                             frame.rot_point, frame.rad_angle)

\* partywall.py:167-171 and 215-222: the normal gate and the offset gate
PassesGates(surface_0, surface_1) ==
    /\ NormalsAligned(surface_0.normal_uni, surface_1.normal_uni)
    /\ ~TooFarApart(Rotated(Frame(surface_0), surface_0),
                    Rotated(Frame(surface_0), surface_1))

\* partywall.py:224-231
PairIntersection(surface_0, surface_1) ==
    Intersection(Delete2ndAxis(Rotated(Frame(surface_0), surface_0)),
                 Delete2ndAxis(Rotated(Frame(surface_0), surface_1)))

\* partywall.py:232-293: the records of the intersection of a pair
IntersectionRecords(surface_0, surface_1, frame, intersection) ==
    IF GeomType(intersection) = "Empty" THEN <<>>
    ELSE IF ~LargeEnough(PieceArea(intersection.cells)) THEN <<>>
    ELSE [k \in DOMAIN SectionsRecorded(intersection) |->
            [w0 |-> surface_0.polygon_id,
             w1 |-> surface_1.polygon_id,
             area |-> PieceArea(SectionsRecorded(intersection)[k]),
             contact |-> _get_collision_unrotated(
                             SectionsRecorded(intersection)[k],
                             frame.rot_point, frame.rad_angle, frame.target_y)]]

\* partywall.py:165-293 for one pair of surfaces: the records it appends,
\* or the exception it raises (a surface that is no surface has no normal)
PairRecords(surface_0, surface_1) ==
    IF surface_0.normal_uni = None \/ surface_1.normal_uni = None
    THEN [raised |-> "InvalidSurface", recs |-> <<>>]
    ELSE IF ~PassesGates(surface_0, surface_1) THEN NoRecords
    ELSE [raised |-> "",
          recs |-> IntersectionRecords(surface_0, surface_1, Frame(surface_0),
                                       PairIntersection(surface_0, surface_1))]

\* buildingLike.freeWalls -= 1: raises on None (an entity whose counters
\* were never set is missing from the function)
Decrement(freeWalls, id) == [freeWalls EXCEPT ![id] = @ - 1]

\* partywall.py:234-293 for one pair of surfaces whose outcome is r: acc
\* holds party_walls, the freeWalls of all entities, hitS0 and the exception
PairStep(acc, r, id_0, id_1) ==
    LET found == [k \in DOMAIN r.recs |->
                    [b0 |-> id_0, w0 |-> r.recs[k].w0, b1 |-> id_1, w1 |-> r.recs[k].w1,
                     area |-> r.recs[k].area, contact |-> r.recs[k].contact]]
        fw0 == IF acc.hitS0 THEN acc.freeWalls ELSE Decrement(acc.freeWalls, id_0)
    IN  IF r.raised # "" THEN [acc EXCEPT !.raised = r.raised]
        ELSE IF r.recs = <<>> THEN acc
        ELSE IF ~acc.hitS0 /\ id_0 \notin DOMAIN acc.freeWalls
        THEN [acc EXCEPT !.raised = "FreeWallsNone"]
        ELSE IF id_1 \notin DOMAIN acc.freeWalls
        THEN [acc EXCEPT !.raised = "FreeWallsNone", !.freeWalls = fw0]
        ELSE [party_walls |-> acc.party_walls \o found,
              freeWalls |-> Decrement(fw0, id_1),
              hitS0 |-> TRUE,
              raised |-> ""]

\* the two loops over the surfaces, from the pair (i, j) on
RECURSIVE WallLoop(_, _, _, _, _, _, _)
WallLoop(b_0_surfaces, b_1_surfaces, id_0, id_1, i, j, acc) ==
    IF acc.raised # "" \/ i > Len(b_0_surfaces) THEN acc
    ELSE WallLoop(b_0_surfaces, b_1_surfaces, id_0, id_1,
                  IF j > Len(b_1_surfaces) THEN i + 1 ELSE i,
                  IF j > Len(b_1_surfaces) THEN 1 ELSE j + 1,
                  IF j > Len(b_1_surfaces) THEN [acc EXCEPT !.hitS0 = FALSE]
                  ELSE PairStep(acc, PairRecords(b_0_surfaces[i], b_1_surfaces[j]),
                                id_0, id_1))

\* _find_party_walls(buildingLike_0, buildingLike_1) with the counters
\* freeWalls of the entities before the call: the list returned, the
\* counters after the call, and the exception raised ("" for none)
_find_party_walls(buildingLike_0, buildingLike_1, freeWalls) ==
    WallLoop(get_surfaces(buildingLike_0, {"WallSurface", "ClosureSurface"}),
             get_surfaces(buildingLike_1, {"WallSurface", "ClosureSurface"}),
             QualifiedId(buildingLike_0), QualifiedId(buildingLike_1), 1, 1,
             [party_walls |-> <<>>, freeWalls |-> freeWalls, hitS0 |-> FALSE,
              raised |-> ""])

----------------------------------------------------------------------------
(* The buildings the datasets are made of.  A surface is given as the      *)
(* arguments of SurfaceGML(): <<polygon_id, surface_type, ring>>.          *)

RectX(x, ya, yb, za, zb) ==
    <<<<x, ya, za>>, <<x, yb, za>>, <<x, yb, zb>>, <<x, ya, zb>>, <<x, ya, za>>>>

\* as RectX, the first edge vertical
RectXv(x, ya, yb, za, zb) ==
    <<<<x, ya, za>>, <<x, ya, zb>>, <<x, yb, zb>>, <<x, yb, za>>, <<x, ya, za>>>>

RectY(y, xa, xb, za, zb) ==
    <<<<xa, y, za>>, <<xb, y, za>>, <<xb, y, zb>>, <<xa, y, zb>>, <<xa, y, za>>>>

GroundRing(x1, x2, y1, y2, z) ==
    <<<<x1, y1, z>>, <<x1, y2, z>>, <<x2, y2, z>>, <<x2, y1, z>>, <<x1, y1, z>>>>

RoofRing(x1, x2, y1, y2, z) ==
    <<<<x1, y1, z>>, <<x2, y1, z>>, <<x2, y2, z>>, <<x1, y2, z>>, <<x1, y1, z>>>>

Diagonal(xa, ya, xb, yb, za, zb) ==
    <<<<xa, ya, za>>, <<xb, yb, za>>, <<xb, yb, zb>>, <<xa, ya, zb>>, <<xa, ya, za>>>>

Ground(id, x1, x2, y1, y2, z) == <<id, "GroundSurface", GroundRing(x1, x2, y1, y2, z)>>

Roof(id, x1, x2, y1, y2, z) == <<id, "RoofSurface", RoofRing(x1, x2, y1, y2, z)>>

Wall(id, ring) == <<id, "WallSurface", ring>>

\* the four walls of a box, normals pointing outwards
BoxWalls(id, x1, x2, y1, y2, z1, z2) ==
    <<Wall(id \o "_w1", RectXv(x1, y1, y2, z1, z2)),
      Wall(id \o "_w2", RectX(x2, y1, y2, z1, z2)),
      Wall(id \o "_w3", RectY(y1, x1, x2, z1, z2)),
      Wall(id \o "_w4", RectY(y2, x2, x1, z1, z2))>>

Box(id, x1, x2, y1, y2, z1, z2) ==
    <<Ground(id \o "_g", x1, x2, y1, y2, z1), Roof(id \o "_r", x1, x2, y1, y2, z2)>>
    \o BoxWalls(id, x1, x2, y1, y2, z1, z2)

\* a wall in the plane x = 200 with a notch cut out of its upper edge:
\* two prongs (y in 0..80 and 180..200) on a bar 40 high
NotchedRing ==
    <<<<200, 0, 0>>, <<200, 200, 0>>, <<200, 200, 100>>, <<200, 180, 100>>,
      <<200, 180, 40>>, <<200, 80, 40>>, <<200, 80, 100>>, <<200, 0, 100>>,
      <<200, 0, 0>>>>

\* the geometries of a building or building part, each a list of surfaces
\* as given, and the parts of a building as <<gml_id, geometries>>
Given ==
    [A   |-> [geometries |-> <<Box("A", 0, 200, 0, 200, 0, 100)>>, parts |-> <<>>],
     B   |-> [geometries |-> <<Box("B", 200, 400, 0, 200, 0, 100)>>, parts |-> <<>>],
     B01 |-> [geometries |-> <<Box("B01", 202, 402, 0, 200, 0, 100)>>, parts |-> <<>>],
     B02 |-> [geometries |-> <<Box("B02", 204, 404, 0, 200, 0, 100)>>, parts |-> <<>>],
     B03 |-> [geometries |-> <<Box("B03", 206, 406, 0, 200, 0, 100)>>, parts |-> <<>>],
     S4  |-> [geometries |-> <<Box("S4", 200, 280, 160, 240, 60, 140)>>, parts |-> <<>>],
     S6  |-> [geometries |-> <<Box("S6", 200, 280, 140, 220, 60, 140)>>, parts |-> <<>>],
     V2  |-> [geometries |-> <<Box("V2", 200, 400, 0, 200, 40, 140)>>, parts |-> <<>>],
     V3  |-> [geometries |-> <<Box("V3", 200, 400, 0, 200, 60, 160)>>, parts |-> <<>>],
     U   |-> [geometries |->
                <<<<Ground("U_g", 0, 200, 0, 200, 0), Roof("U_r", 0, 200, 0, 200, 100),
                    Wall("U_w1", RectXv(0, 0, 200, 0, 100)),
                    Wall("U_w2", NotchedRing),
                    Wall("U_w3", RectY(0, 0, 200, 0, 100)),
                    Wall("U_w4", RectY(200, 200, 0, 0, 100))>>>>,
              parts |-> <<>>],
     T   |-> [geometries |->
                <<<<Ground("T_g", 184, 225, 20, 173, 0),
                    Roof("T_r", 184, 225, 20, 173, 100),
                    <<"T_c", "ClosureSurface", Diagonal(184, 20, 225, 173, 0, 100)>>>>>>,
              parts |-> <<>>],
     R   |-> [geometries |->
                <<<<Ground("R_g", 180, 230, 20, 140, 0),
                    Roof("R_r", 180, 230, 20, 140, 100),
                    Wall("R_w", Diagonal(180, 20, 230, 140, 0, 100))>>>>,
              parts |-> <<>>],
     G2  |-> [geometries |->
                <<<<Ground("G2_g1", 0, 200, 0, 100, 0),
                    Ground("G2_g2", 0, 200, 100, 200, 0),
                    Roof("G2_r", 0, 200, 0, 200, 100)>>
                  \o BoxWalls("G2", 0, 200, 0, 200, 0, 100)>>,
              parts |-> <<>>],
     M   |-> [geometries |-> <<Box("M", 800, 1000, 0, 200, 0, 100)>>,
              parts |-> <<<<"MP", <<Box("MP", 400, 600, 0, 200, 0, 100)>>>>>>],
     I   |-> [geometries |->
                <<Box("I", 0, 200, 200, 400, 0, 100)
                  \o <<Wall("I_bad", <<<<0, 200, 0>>, <<200, 200, 0>>, <<0, 200, 0>>>>)>>>>,
              parts |-> <<>>],
     N   |-> [geometries |->
                <<<<Ground("N_g", 200, 400, 0, 200, 0)>>
                  \o BoxWalls("N", 200, 400, 0, 200, 0, 100)>>,
              parts |-> <<>>],
     H   |-> [geometries |->
                <<<<Ground("H_g", 0, 200, 0, 200, 0), Roof("H_r", 0, 200, 0, 200, 100),
                    Wall("H_w1", RectXv(0, 0, 200, 0, 100)),
                    Wall("H_w2a", RectX(200, 0, 100, 0, 100)),
                    Wall("H_w2b", RectX(200, 100, 200, 0, 100)),
                    Wall("H_w3", RectY(0, 0, 200, 0, 100)),
                    Wall("H_w4", RectY(200, 200, 0, 0, 100))>>>>,
              parts |-> <<>>],
     P   |-> [geometries |-> <<Box("P", 0, 200, 600, 800, 0, 100)>>,
              parts |-> <<<<"PP", <<<<Ground("PP_g", 0, 200, 800, 1000, 0)>>
                                    \o BoxWalls("PP", 0, 200, 800, 1000, 0, 100)>>>>>>],
     D   |-> [geometries |->
                <<<<Ground("D_g", 200, 400, 0, 200, 0),
                    Roof("D_r", 200, 400, 0, 200, 100)>>,
                  BoxWalls("D", 200, 400, 0, 200, 0, 100)>>,
              parts |-> <<>>]]

\* the GeometryGML objects with the SurfaceGML objects constructed
Geometries(given) ==
    [g \in DOMAIN given |->
        [n \in DOMAIN given[g] |->
            SurfaceGML(given[g][n][1], given[g][n][2], given[g][n][3])]]

\* the building with its surfaces added to its geometries and its parts
\* added to it
Built(id, given) ==
    Building(id, Geometries(given.geometries),
             [n \in DOMAIN given.parts |->
                 BuildingPart(given.parts[n][1], id,
                              Geometries(given.parts[n][2]))])

Catalogue == [id \in DOMAIN Given |-> Built(id, Given[id])]

----------------------------------------------------------------------------
(* The ground-proximity prefilter, partywall.py:82-85 and 298-316.  The    *)
(* buffer of a rectangle is the rectangle with the buffer distance around  *)
(* it; it meets another rectangle iff their gap is at most that distance.  *)

BBox(coordinates) ==
    [x1 |-> SetMin({q[1] : q \in Range(coordinates)}),
     x2 |-> SetMax({q[1] : q \in Range(coordinates)}),
     y1 |-> SetMin({q[2] : q \in Range(coordinates)}),
     y2 |-> SetMax({q[2] : q \in Range(coordinates)})]

_create_buffered_polygon(coordinates, buffer) ==
    [box |-> BBox(coordinates), buffer |-> buffer]

\* not p_0.intersection(p_1).is_empty, p_0 a buffered polygon, p_1 a ring
BufferedIntersects(p_0, p_1) ==
    LET b  == BBox(p_1)
        gx == SetMax({0, b.x1 - p_0.box.x2, p_0.box.x1 - b.x2})
        gy == SetMax({0, b.y1 - p_0.box.y2, p_0.box.y1 - b.y2})
    IN  gx * gx + gy * gy <= p_0.buffer * p_0.buffer

PrefilterPasses(coor_0, coor_1) ==
    BufferedIntersects(_create_buffered_polygon(coor_0, BUFFER), coor_1)

----------------------------------------------------------------------------
(* Bounds *)

\* buildings in a dataset
MaxBuildings == 2

\* calls of get_party_walls on one dataset
MaxRuns == 2

----------------------------------------------------------------------------
(* get_party_walls, partywall.py:15-134, one step per loop iteration *)

VARIABLES
    buildings,            \* dataset.buildings, in insertion order
    allWalls,             \* allWalls of the entities, by qualified id; None = absent
    freeWalls,            \* freeWalls of the entities, likewise
    pc,                   \* where the call of get_party_walls stands
    run,                  \* calls of get_party_walls started so far
    all_party_walls,      \* local of get_party_walls
    updNumOfWalls,        \* local of get_party_walls
    polys_in_building_0,  \* local of get_party_walls
    i,                    \* index of building_0
    j,                    \* self collision: index of poly_0
    m,                    \* self collision: index of poly_1
    k,                    \* index of building_1
    p,                    \* index of poly_0 against building_1 or its part; 0 before
    q,                    \* index of the building part of building_1
    raised,               \* the exception that ended the call, "" for none
    results,              \* the lists returned by the completed calls
    calls,                \* the calls of _find_party_walls in the current run
    direct                \* a call of _find_party_walls from outside and its outcome

\* the state of the classes and functions that are exercised on their own,
\* without a dataset
VARIABLES
    surface_input,        \* the gml_surface given to SurfaceGML(), as points
    constructed,          \* the SurfaceGML object constructed from it
    normal_test,          \* the normal test of partywall.py:167-171 on the object
    rot_input,            \* a point, a rotation centre and an angle
    rot_there,            \* the point rotated by the angle
    rot_back,             \* rot_there rotated by the negated angle
    rot_collision,        \* <<_get_collision_unrotated on a rectangle at rot_there>>
    config_module,        \* the attributes of the module citydpc.config
    warnings_module,      \* the globals of citydpc.util.citydpcWarnings; None
                          \* before its import
    configured,           \* <<warn_always>> of the last configure_warnings call
                          \* that gave it
    warn_log              \* the calls of warn since then

\* the state of the objects that are exercised on their own
VARIABLES
    shape_input,          \* the arguments of SurfaceGML(): ring and surface_type
    shape,                \* the attributes of the SurfaceGML object made of them
    planar,               \* <<is_planar()>> of that object after its construction
    envelope,             \* the lists minList and maxList
    geometries,           \* AbstractBuilding.geometries, key -> geometry
    geometry,             \* a GeometryGML object: type, surfaces, solids
    dataset_buildings,    \* Dataset.buildings, key -> building
    last_call             \* the last call on the object and its outcome

shapeVars == <<shape_input, shape, planar, envelope>>

containerVars == <<geometries, geometry, dataset_buildings, last_call>>

unitVars ==
    <<surface_input, constructed, normal_test, rot_input, rot_there, rot_back,
      rot_collision, config_module, warnings_module, configured, warn_log,
      shapeVars, containerVars>>

surfaceVars == <<surface_input, constructed, normal_test>>

rotationVars == <<rot_input, rot_there, rot_back, rot_collision>>

warningsVars == <<config_module, warnings_module, configured, warn_log>>

partyWallVars ==
    <<buildings, allWalls, freeWalls, pc, run, all_party_walls, updNumOfWalls,
      polys_in_building_0, i, j, m, k, p, q, raised, results, calls, direct>>

vars == <<partyWallVars, unitVars>>

Names == DOMAIN Catalogue

Datasets ==
    {[n \in DOMAIN ids |-> Catalogue[ids[n]]] :
        ids \in {s \in UNION {[1..n -> Names] : n \in 0..MaxBuildings} :
                    \A a \in DOMAIN s : \A b \in DOMAIN s : a # b => s[a] # s[b]}}

EmptyFunction == [x \in {} |-> 0]

\* no SurfaceGML object under construction
SurfaceIdle == surface_input = None /\ constructed = None /\ normal_test = None

\* no SurfaceGML object whose attributes are looked at
ShapeIdle == shape_input = None /\ shape = None /\ planar = None /\ envelope = None

\* no building, geometry or dataset that is filled on its own
ContainersIdle ==
    /\ geometries = None
    /\ geometry = None
    /\ dataset_buildings = None
    /\ last_call = None

\* get_party_walls was not called yet
NoCall ==
    /\ allWalls = EmptyFunction
    /\ freeWalls = EmptyFunction
    /\ pc = "idle"
    /\ run = 0
    /\ all_party_walls = <<>>
    /\ updNumOfWalls = {}
    /\ polys_in_building_0 = <<>>
    /\ i = 0 /\ j = 0 /\ m = 0 /\ k = 0 /\ p = 0 /\ q = 0
    /\ raised = ""
    /\ results = <<>>
    /\ calls = <<>>
    /\ direct = <<>>

\* no rotation asked for
RotationIdle ==
    rot_input = None /\ rot_there = None /\ rot_back = None /\ rot_collision = None

\* citydpc/config.py:4-8 as loaded, citydpc.util.citydpcWarnings not imported
WarningsIdle ==
    /\ config_module = [WARN_ONCE_PER_CATEGORY |-> FALSE,
                        SUPPRESSED_WARNING_CATEGORIES |-> {}]
    /\ warnings_module = None
    /\ configured = None
    /\ warn_log = <<>>

Init ==
    /\ SurfaceIdle
    /\ RotationIdle
    /\ WarningsIdle
    /\ buildings \in Datasets
    /\ ShapeIdle
    /\ ContainersIdle
    /\ NoCall

\* Dataset.get_building_by_id
get_building_by_id(id) == CHOOSE b \in Range(buildings) : b.gml_id = id

\* the building-like entities of the dataset
Entities == Range(buildings) \cup UNION {Range(b.building_parts) : b \in Range(buildings)}

EntityOf(id) == CHOOSE e \in Entities : QualifiedId(e) = id

NumberOfWalls(buildingLike) == Len(get_surfaces(buildingLike, {"WallSurface"}))

\* partywall.py:32-37, 54-64, 92-97, 115-120 for the entities es: the
\* counters of those that are not in updNumOfWalls yet
CountersSet(counters, es) ==
    LET new == {e \in es : QualifiedId(e) \notin updNumOfWalls}
    IN  [id \in DOMAIN counters \cup {QualifiedId(e) : e \in new} |->
            IF \E e \in new : QualifiedId(e) = id
            THEN NumberOfWalls(EntityOf(id))
            ELSE counters[id]]

SetCounters(es) ==
    /\ allWalls' = CountersSet(allWalls, es)
    /\ freeWalls' = CountersSet(freeWalls, es)
    /\ updNumOfWalls' = updNumOfWalls \cup {QualifiedId(e) : e \in es}

\* the entries of polys_in_building_0 for the ground surfaces of an entity
GroundPolys(buildingLike, parent) ==
    LET grounds == get_surfaces(buildingLike, {"GroundSurface"})
    IN  [n \in DOMAIN grounds |->
            [poly_id |-> grounds[n].polygon_id,
             coor |-> grounds[n].gml_surface_2array,
             parent |-> parent]]

\* the surface with the normal negated
Negated(surface) ==
    IF surface.normal_uni = None THEN surface
    ELSE [surface EXCEPT !.normal_uni = Vneg(surface.normal_uni)]

\* variant: the negated normal of partywall.py:169 is written into the
\* surfaces of buildingLike_1
DatasetAfter_negated_in_place(dataset, buildingLike_1) ==
    [n \in DOMAIN dataset |->
        IF dataset[n].gml_id # buildingLike_1.gml_id THEN dataset[n]
        ELSE [dataset[n] EXCEPT !.geometries =
                 [g \in DOMAIN dataset[n].geometries |->
                     [x \in DOMAIN dataset[n].geometries[g] |->
                         Negated(dataset[n].geometries[g][x])]]]]

\* dataset.buildings after _find_party_walls(buildingLike_0, buildingLike_1):
\* the function reads gml_surface_2array, normal_uni and the identifiers,
\* makes new arrays and lists of them (partywall.py:167-231, 355-382) and
\* assigns to freeWalls only
DatasetAfter(dataset, buildingLike_1) == dataset

\* party_walls = _find_party_walls(b0, b1); all_party_walls.extend(party_walls)
\* after the prefilter passed on the ground polygons g0 and g1
Resolve(b0, b1, g0, g1, next) ==
    LET r == _find_party_walls(b0, b1, freeWalls)
    IN  /\ buildings' = DatasetAfter(buildings, b1)
        /\ calls' = Append(calls, [b0 |-> QualifiedId(b0), b1 |-> QualifiedId(b1),
                                   g0 |-> g0, g1 |-> g1])
        /\ freeWalls' = r.freeWalls
        /\ raised' = r.raised
        /\ all_party_walls' =
               IF r.raised = "" THEN all_party_walls \o r.party_walls ELSE all_party_walls
        /\ pc' = IF r.raised = "" THEN next ELSE "raised"

\* variant: a call that keeps the list of the call before
Call_keeping_list ==
    /\ pc \in {"idle", "done"}
    /\ run < MaxRuns
    /\ run' = run + 1
    /\ updNumOfWalls' = {}
    /\ calls' = <<>>
    /\ i' = 1
    /\ pc' = "building"
    /\ UNCHANGED unitVars
    /\ UNCHANGED <<buildings, allWalls, freeWalls, all_party_walls, polys_in_building_0,
                   j, m, k, p, q, raised, results, direct>>

\* partywall.py:29-30
Call ==
    /\ pc \in {"idle", "done"}
    /\ run < MaxRuns
    /\ run' = run + 1
    /\ all_party_walls' = <<>>
    /\ updNumOfWalls' = {}
    /\ calls' = <<>>
    /\ i' = 1
    /\ pc' = "building"
    /\ UNCHANGED unitVars
    /\ UNCHANGED <<buildings, allWalls, freeWalls, polys_in_building_0, j, m, k, p, q,
                   raised, results, direct>>

\* partywall.py:31-77
Collect ==
    /\ pc = "building"
    /\ i <= Len(buildings)
    /\ LET building_0 == buildings[i]
           parts == {b_part \in Range(get_building_parts(building_0)) :
                        has_3Dgeometry(b_part)}
           part_polys ==
               [n \in DOMAIN get_building_parts(building_0) |->
                   LET b_part == get_building_parts(building_0)[n]
                   IN  IF has_3Dgeometry(b_part)
                       THEN GroundPolys(b_part,
                                get_building_by_id(b_part.parent_gml_id).gml_id)
                       ELSE <<>>]
       IN  /\ SetCounters({building_0} \cup parts)
           /\ polys_in_building_0' =
                  (IF has_3Dgeometry(building_0)
                   THEN GroundPolys(building_0, building_0.gml_id) ELSE <<>>)
                  \o Concat(part_polys)
    /\ pc' = "self"
    /\ j' = 1
    /\ m' = 2
    /\ UNCHANGED unitVars
    /\ UNCHANGED <<buildings, run, all_party_walls, i, k, p, q, raised, results, calls,
                   direct>>

\* partywall.py:81-88, one pair poly_0, poly_1
SelfPair ==
    /\ pc = "self"
    /\ j < Len(polys_in_building_0)
    /\ LET poly_0 == polys_in_building_0[j]
           poly_1 == polys_in_building_0[m]
       IN  IF PrefilterPasses(poly_0.coor, poly_1.coor)
           THEN Resolve(get_building_by_id(poly_0.parent),
                        get_building_by_id(poly_1.parent),
                        poly_0.poly_id, poly_1.poly_id, "self")
           ELSE UNCHANGED <<buildings, freeWalls, raised, all_party_walls, calls, pc>>
    /\ IF m < Len(polys_in_building_0)
       THEN j' = j /\ m' = m + 1
       ELSE j' = j + 1 /\ m' = j + 2
    /\ UNCHANGED unitVars
    /\ UNCHANGED <<allWalls, run, updNumOfWalls, polys_in_building_0, i, k, p,
                   q, results, direct>>

SelfDone ==
    /\ pc = "self"
    /\ j >= Len(polys_in_building_0)
    /\ pc' = "other"
    /\ k' = i + 1
    /\ j' = 0
    /\ m' = 0
    /\ UNCHANGED unitVars
    /\ UNCHANGED <<buildings, allWalls, freeWalls, run, all_party_walls, updNumOfWalls,
                   polys_in_building_0, i, p, q, raised, results, calls, direct>>

\* partywall.py:91-97
OtherInit ==
    /\ pc = "other"
    /\ k <= Len(buildings)
    /\ SetCounters({buildings[k]})
    /\ pc' = "own"
    /\ p' = 1
    /\ UNCHANGED unitVars
    /\ UNCHANGED <<buildings, run, all_party_walls, polys_in_building_0, i, j, m, k, q,
                   raised, results, calls, direct>>

\* the first ground surface of the entity that passes the prefilter against
\* poly_0, 0 if none does (the inner loops of lines 102-110 and 124-133)
FirstHit(poly_0, buildingLike) ==
    LET grounds == get_surfaces(buildingLike, {"GroundSurface"})
        hits == {n \in DOMAIN grounds :
                    PrefilterPasses(poly_0.coor, grounds[n].gml_surface_2array)}
    IN  IF hits = {} THEN 0 ELSE SetMin(hits)

\* lines 100-110 and 122-133 for one poly_0 against the entity
AgainstEntity(buildingLike, here) ==
    LET poly_0 == polys_in_building_0[p]
        n == FirstHit(poly_0, buildingLike)
    IN  /\ IF n > 0
           THEN Resolve(get_building_by_id(poly_0.parent), buildingLike, poly_0.poly_id,
                        get_surfaces(buildingLike, {"GroundSurface"})[n].polygon_id, here)
           ELSE UNCHANGED <<buildings, freeWalls, raised, all_party_walls, calls, pc>>
        /\ p' = p + 1

\* partywall.py:99-110, one poly_0
OtherOwn ==
    /\ pc = "own"
    /\ has_3Dgeometry(buildings[k])
    /\ p <= Len(polys_in_building_0)
    /\ AgainstEntity(buildings[k], "own")
    /\ UNCHANGED unitVars
    /\ UNCHANGED <<allWalls, run, updNumOfWalls, polys_in_building_0, i, j, m,
                   k, q, results, direct>>

OwnDone ==
    /\ pc = "own"
    /\ ~(has_3Dgeometry(buildings[k]) /\ p <= Len(polys_in_building_0))
    /\ pc' = "part"
    /\ q' = 1
    /\ p' = 0
    /\ UNCHANGED unitVars
    /\ UNCHANGED <<buildings, allWalls, freeWalls, run, all_party_walls, updNumOfWalls,
                   polys_in_building_0, i, j, m, k, raised, results, calls, direct>>

\* partywall.py:114-120
PartInit ==
    /\ pc = "part"
    /\ q <= Len(get_building_parts(buildings[k]))
    /\ p = 0
    /\ SetCounters({get_building_parts(buildings[k])[q]})
    /\ p' = 1
    /\ UNCHANGED unitVars
    /\ UNCHANGED <<buildings, pc, run, all_party_walls, polys_in_building_0, i, j, m, k,
                   q, raised, results, calls, direct>>

\* partywall.py:121-133, one poly_0
PartPoly ==
    /\ pc = "part"
    /\ q <= Len(get_building_parts(buildings[k]))
    /\ p >= 1
    /\ has_3Dgeometry(get_building_parts(buildings[k])[q])
    /\ p <= Len(polys_in_building_0)
    /\ AgainstEntity(get_building_parts(buildings[k])[q], "part")
    /\ UNCHANGED unitVars
    /\ UNCHANGED <<allWalls, run, updNumOfWalls, polys_in_building_0, i, j, m,
                   k, q, results, direct>>

PartNext ==
    /\ pc = "part"
    /\ q <= Len(get_building_parts(buildings[k]))
    /\ p >= 1
    /\ ~(has_3Dgeometry(get_building_parts(buildings[k])[q])
         /\ p <= Len(polys_in_building_0))
    /\ q' = q + 1
    /\ p' = 0
    /\ UNCHANGED unitVars
    /\ UNCHANGED <<buildings, allWalls, freeWalls, pc, run, all_party_walls,
                   updNumOfWalls, polys_in_building_0, i, j, m, k, raised, results, calls,
                   direct>>

PartDone ==
    /\ pc = "part"
    /\ q > Len(get_building_parts(buildings[k]))
    /\ pc' = "other"
    /\ k' = k + 1
    /\ q' = 0
    /\ UNCHANGED unitVars
    /\ UNCHANGED <<buildings, allWalls, freeWalls, run, all_party_walls, updNumOfWalls,
                   polys_in_building_0, i, j, m, p, raised, results, calls, direct>>

OtherDone ==
    /\ pc = "other"
    /\ k > Len(buildings)
    /\ pc' = "building"
    /\ i' = i + 1
    /\ k' = 0
    /\ polys_in_building_0' = <<>>
    /\ UNCHANGED unitVars
    /\ UNCHANGED <<buildings, allWalls, freeWalls, run, all_party_walls, updNumOfWalls,
                   j, m, p, q, raised, results, calls, direct>>

\* partywall.py:134
Return ==
    /\ pc = "building"
    /\ i > Len(buildings)
    /\ pc' = "done"
    /\ i' = 0
    /\ results' = Append(results, all_party_walls)
    /\ UNCHANGED unitVars
    /\ UNCHANGED <<buildings, allWalls, freeWalls, run, all_party_walls, updNumOfWalls,
                   polys_in_building_0, j, m, k, p, q, raised, calls, direct>>

\* _find_party_walls called on two entities of the dataset after a run
DirectCall ==
    /\ pc = "done"
    /\ \E b0 \in Entities : \E b1 \in Entities :
          LET r == _find_party_walls(b0, b1, freeWalls)
          IN  /\ direct' = <<[b0 |-> QualifiedId(b0), b1 |-> QualifiedId(b1),
                              party_walls |-> r.party_walls, raised |-> r.raised]>>
              /\ freeWalls' = r.freeWalls
              /\ buildings' = DatasetAfter(buildings, b1)
    /\ pc' = "direct"
    /\ UNCHANGED unitVars
    /\ UNCHANGED <<allWalls, run, all_party_walls, updNumOfWalls,
                   polys_in_building_0, i, j, m, k, p, q, raised, results, calls>>

Next ==
    \/ Call
    \/ Collect
    \/ SelfPair
    \/ SelfDone
    \/ OtherInit
    \/ OtherOwn
    \/ OwnDone
    \/ PartInit
    \/ PartPoly
    \/ PartNext
    \/ PartDone
    \/ OtherDone
    \/ Return
    \/ DirectCall

Spec == Init /\ [][Next]_vars

----------------------------------------------------------------------------
(* getDataFrame(dataset, includeFreeWalls=True, includeBP=False),          *)
(* datasetToDataFrame.py:12-66, after its call of get_party_walls has      *)
(* returned the list partyWalls: the columns freeWalls and allWalls of the *)
(* rows, by the gml_id of the row.                                         *)

\* datasetToDataFrame.py:62 and 65: df.loc[df["gml_id"] == id, "freeWalls"] -= 1
RowsLessOne(rows, id) ==
    [gml_id \in DOMAIN rows |->
        IF gml_id = id THEN [rows[gml_id] EXCEPT !.freeWalls = @ - 1]
        ELSE rows[gml_id]]

\* datasetToDataFrame.py:59-65 from the record at index n on
RECURSIVE CountOffPartyWalls(_, _, _, _)
CountOffPartyWalls(partyWalls, n, buildingWallCombs, rows) ==
    IF n > Len(partyWalls) THEN rows
    ELSE LET rec == partyWalls[n]
             comb_0 == rec.b0 \o rec.w0
             comb_1 == rec.b1 \o rec.w1
             rows_0 == IF comb_0 \notin buildingWallCombs
                       THEN RowsLessOne(rows, rec.b0) ELSE rows
             rows_1 == IF comb_1 \notin buildingWallCombs \cup {comb_0}
                       THEN RowsLessOne(rows_0, rec.b1) ELSE rows_0
         IN  CountOffPartyWalls(partyWalls, n + 1,
                                buildingWallCombs \cup {comb_0, comb_1}, rows_1)

getDataFrame(dataset, partyWalls) ==
    CountOffPartyWalls(
        partyWalls, 1, {},
        [gml_id \in {b.gml_id : b \in Range(dataset)} |->
            [freeWalls |-> NumberOfWalls(CHOOSE b \in Range(dataset) : b.gml_id = gml_id),
             allWalls |-> NumberOfWalls(CHOOSE b \in Range(dataset) : b.gml_id = gml_id)]])

----------------------------------------------------------------------------
(* SurfaceGML on its own: an object is constructed from a ring of points   *)
(* and then put to the normal test of _find_party_walls with another       *)
(* surface.  The points lie in the plane y = 0; (1, 0, 0) is 0.007 away   *)
(* from the segment from (0, 0, 0) to (7, 0, 1).                           *)

\* points of a ring given to SurfaceGML(), the closing point not counted
MaxRingPoints == 5

RingPoints ==
    {<<0, 0, 0>>, <<1, 0, 0>>, <<2, 0, 0>>, <<7, 0, 0>>, <<7, 0, 1>>, <<0, 0, 1>>}

\* the rings given: the first point is repeated as the last
Rings ==
    {Append(s, s[1]) : s \in UNION {[1..n -> RingPoints] : n \in 2..MaxRingPoints}}

\* the surfaces the constructed one is tested with: a wall in the plane
\* y = 0, a wall in the plane x = 0, and a ring with two intermediate points
\* on its first edge
TestSurfaces ==
    {SurfaceGML("t_y", "WallSurface",
                <<<<0, 0, 0>>, <<7, 0, 0>>, <<7, 0, 1>>, <<0, 0, 1>>, <<0, 0, 0>>>>),
     SurfaceGML("t_x", "WallSurface",
                <<<<0, 0, 0>>, <<0, 7, 0>>, <<0, 7, 1>>, <<0, 0, 1>>, <<0, 0, 0>>>>),
     SurfaceGML("t_e", "WallSurface",
                <<<<0, 0, 0>>, <<1, 0, 0>>, <<2, 0, 0>>, <<7, 0, 0>>, <<7, 0, 1>>,
                  <<0, 0, 0>>>>)}

InitSurface ==
    /\ surface_input \in Rings
    /\ constructed = None
    /\ normal_test = None
    /\ RotationIdle
    /\ WarningsIdle
    /\ buildings = <<>>
    /\ ShapeIdle
    /\ ContainersIdle
    /\ NoCall

\* SurfaceGML(gml_surface, surface_type="WallSurface", polygon_id="s")
Construct ==
    /\ surface_input # None
    /\ constructed = None
    /\ constructed' = SurfaceGML("s", "WallSurface", surface_input)
    /\ UNCHANGED <<surface_input, normal_test>>
    /\ UNCHANGED <<partyWallVars, rotationVars, warningsVars, shapeVars, containerVars>>

\* partywall.py:167-171 on the normals n0 and n1, of which None is the
\* normal of an invalid surface: np.array_equal(None, None) is True, and
\* -None and np.dot(None, n1) raise TypeError
NormalTestOutcome(n0, n1) ==
    IF n0 = None /\ n1 = None THEN "pass"
    ELSE IF n0 = None \/ n1 = None THEN "TypeError"
    ELSE IF NormalsAligned(n0, n1) THEN "pass"
    ELSE "fail"

\* the condition of partywall.py:167-171 with the constructed surface as
\* surface_0 and a test surface as surface_1
NormalTest ==
    /\ constructed # None
    /\ normal_test = None
    /\ \E surface_1 \in TestSurfaces :
          normal_test' = [surface_1 |-> surface_1.polygon_id,
                          outcome |-> NormalTestOutcome(constructed.normal_uni,
                                                        surface_1.normal_uni)]
    /\ UNCHANGED <<surface_input, constructed>>
    /\ UNCHANGED <<partyWallVars, rotationVars, warningsVars, shapeVars, containerVars>>

NextSurface ==
    \/ Construct
    \/ NormalTest

SpecSurface == InitSurface /\ [][NextSurface]_vars

----------------------------------------------------------------------------
(* The attributes SurfaceGML.__init__ derives from the ring once the       *)
(* object is valid (surfacegml.py:71-96), is_planar, and                   *)
(* update_min_max_from_surface.  A unit normal is the integer vector n of  *)
(* its direction, its components are n[c] / |n|.  A tilt is <<0>> or       *)
(* <<90>> where arccos gives exactly these, and <<|n[3]|, n.n>> otherwise; *)
(* an orientation is <<-1>>, <<-2>> or the direction <<n[1], n[2]>> of the *)
(* azimuth.                                                                *)

\* surfacegml.py:9 binds the value of citydpc.core.input at import, True
CHECK_IF_SURFACES_ARE_PLANAR == TRUE

\* the components c of the unit normals along n0 and n1 are equal numbers
SameComponent(n0, n1, c) ==
    /\ (n0[c] > 0) = (n1[c] > 0)
    /\ (n0[c] < 0) = (n1[c] < 0)
    /\ n0[c] * n0[c] * Vdot(n1, n1) = n1[c] * n1[c] * Vdot(n0, n0)

\* np.all(normal != normal_uni, axis=0), surfacegml.py:284: comparing an
\* array with None gives True in every component
AllComponentsDiffer(normal, normal_uni) ==
    IF normal_uni = None THEN TRUE
    ELSE \A c \in 1..3 : ~SameComponent(normal, normal_uni, c)

\* SurfaceGML.is_planar, surfacegml.py:255-292
is_planar(gml_surface_2array, normal_uni) ==
    IF Len(gml_surface_2array) <= 3 THEN FALSE
    ELSE IF Len(gml_surface_2array) <= 4 THEN TRUE
    ELSE \A n \in 1..(Len(gml_surface_2array) - 2) :
            ~AllComponentsDiffer(
                 _calculate_unit_normal(gml_surface_2array[n],
                                        gml_surface_2array[n + 1],
                                        gml_surface_2array[n + 2]),
                 normal_uni)

\* SurfaceGML.get_gml_tilt, surfacegml.py:113-133
get_gml_tilt(normal_uni) ==
    IF normal_uni[3] = 0 THEN <<90>>
    ELSE IF normal_uni[1] = 0 /\ normal_uni[2] = 0 THEN <<0>>
    ELSE <<Abs(normal_uni[3]), Vdot(normal_uni, normal_uni)>>

\* np.isclose(z / |n|, 1.0) for z > 0, with the tolerances 1e-5 and 1e-8 of
\* numpy: 1 - z / |n| <= 1.001e-5
CloseToOne(z, normal_uni) ==
    /\ z > 0
    /\ 49949 * (Vdot(normal_uni, normal_uni) - z * z) <= z * z

\* SurfaceGML.get_gml_orientation, surfacegml.py:135-163
get_gml_orientation(normal_uni) ==
    IF CloseToOne(normal_uni[3], normal_uni) THEN <<-1>>
    ELSE IF CloseToOne(-normal_uni[3], normal_uni) THEN <<-2>>
    ELSE <<normal_uni[1], normal_uni[2]>>

\* variant: the kind follows from the tilt alone
InferredType_tilt_only(surface_tilt, surface_orientation) ==
    IF surface_tilt = <<0>> THEN "GroundSurface"
    ELSE IF surface_tilt = <<90>> THEN "WallSurface"
    ELSE "RoofSurface"

\* surfacegml.py:91-96
InferredType(surface_tilt, surface_orientation) ==
    IF surface_tilt = <<0>> /\ surface_orientation = <<-2>> THEN "GroundSurface"
    ELSE IF surface_tilt = <<90>> THEN "WallSurface"
    ELSE "RoofSurface"

\* SurfaceGML.__init__, surfacegml.py:32-96, for a surface_type that may be
\* None (<<>>, a given type t being <<t>>): the attributes of the object
\* and whether the warning of lines 74-77 was logged
SurfaceAttributes(ring, surface_type) ==
    LET surface == SurfaceGML("s", surface_type, ring)
    IN  IF ~surface.isSurface
        THEN [isSurface |-> FALSE, gml_surface_2array |-> None,
              normal_uni |-> None, surface_type |-> surface_type,
              surface_tilt |-> None, surface_orientation |-> None,
              not_planar_warning |-> FALSE]
        ELSE LET surface_tilt == get_gml_tilt(surface.normal_uni)
                 surface_orientation == get_gml_orientation(surface.normal_uni)
             IN  [isSurface |-> TRUE,
                  gml_surface_2array |-> surface.gml_surface_2array,
                  normal_uni |-> surface.normal_uni,
                  surface_type |->
                      IF surface_type = None
                      THEN <<InferredType(surface_tilt, surface_orientation)>>
                      ELSE surface_type,
                  surface_tilt |-> surface_tilt,
                  surface_orientation |-> surface_orientation,
                  not_planar_warning |->
                      /\ CHECK_IF_SURFACES_ARE_PLANAR
                      /\ ~is_planar(surface.gml_surface_2array, None)]

\* a bound of an envelope: <<v, 1>> for the number v, <<1, 0>> for math.inf
\* and <<-1, 0>> for -math.inf
Bound(v) == <<v, 1>>

\* a < b for two bounds
Less(a, b) ==
    IF a[2] = 0 THEN a[1] < 0 /\ ~(b[2] = 0 /\ b[1] < 0)
    ELSE IF b[2] = 0 THEN b[1] > 0
    ELSE a[1] < b[1]

\* envelope.py:30-33
UpdateCoordinate(lists, axis, coordinate) ==
    IF Less(Bound(coordinate), lists.minList[axis])
    THEN [lists EXCEPT !.minList[axis] = Bound(coordinate)]
    ELSE IF Less(lists.maxList[axis], Bound(coordinate))
         THEN [lists EXCEPT !.maxList[axis] = Bound(coordinate)]
         ELSE lists

\* envelope.py:29-33 for the point
UpdatePoint(lists, point) ==
    UpdateCoordinate(UpdateCoordinate(UpdateCoordinate(lists, 1, point[1]),
                                      2, point[2]),
                     3, point[3])

\* update_min_max_from_surface, envelope.py:9-34, from the point at index n
\* of surface.gml_surface_2array on
RECURSIVE update_min_max_from_surface(_, _, _)
update_min_max_from_surface(lists, gml_surface_2array, n) ==
    IF n > Len(gml_surface_2array) THEN lists
    ELSE update_min_max_from_surface(UpdatePoint(lists, gml_surface_2array[n]),
                                     gml_surface_2array, n + 1)

\* points of a ring given to SurfaceGML(), the closing point not counted
MaxShapePoints == 5

\* the corners of a horizontal square, two points above its first edge and
\* one point above a corner at half that height
ShapePoints ==
    {<<0, 0, 0>>, <<2, 0, 0>>, <<2, 2, 0>>, <<0, 2, 0>>, <<0, 0, 2>>, <<2, 0, 2>>,
     <<2, 2, 1>>}

ShapeRings ==
    {Append(s, s[1]) : s \in UNION {[1..n -> ShapePoints] : n \in 2..MaxShapePoints}}

\* Dataset._minimum and Dataset._maximum as set by Dataset.__init__,
\* dataset.py:26-27, and as they are after a surface with the corners
\* (1, 1, 0) and (3, 3, 0)
Envelopes ==
    {[minList |-> <<<<1, 0>>, <<1, 0>>, <<1, 0>>>>,
      maxList |-> <<<<-1, 0>>, <<-1, 0>>, <<-1, 0>>>>],
     [minList |-> <<Bound(1), Bound(1), Bound(0)>>,
      maxList |-> <<Bound(3), Bound(3), Bound(0)>>]}

InitShape ==
    /\ \E ring \in ShapeRings : \E surface_type \in {None, <<"WallSurface">>} :
          shape_input = [gml_surface |-> ring, surface_type |-> surface_type]
    /\ shape = None
    /\ planar = None
    /\ \E lists \in Envelopes : envelope = [lists |-> lists, updated |-> FALSE]
    /\ ContainersIdle
    /\ SurfaceIdle
    /\ RotationIdle
    /\ WarningsIdle
    /\ buildings = <<>>
    /\ NoCall

\* SurfaceGML(gml_surface, surface_type=surface_type)
ConstructShape ==
    /\ shape_input # None
    /\ shape = None
    /\ shape' = SurfaceAttributes(shape_input.gml_surface, shape_input.surface_type)
    /\ UNCHANGED <<shape_input, planar, envelope>>
    /\ UNCHANGED <<partyWallVars, surfaceVars, rotationVars, warningsVars, containerVars>>

\* surface.is_planar() on the constructed object
IsPlanar ==
    /\ shape # None
    /\ shape.isSurface
    /\ planar = None
    /\ planar' = <<is_planar(shape.gml_surface_2array, shape.normal_uni)>>
    /\ UNCHANGED <<shape_input, shape, envelope>>
    /\ UNCHANGED <<partyWallVars, surfaceVars, rotationVars, warningsVars, containerVars>>

\* update_min_max_from_surface(minList, maxList, surface)
UpdateEnvelope ==
    /\ shape # None
    /\ shape.isSurface
    /\ ~envelope.updated
    /\ envelope' =
           [lists |-> update_min_max_from_surface(envelope.lists,
                                                  shape.gml_surface_2array, 1),
            updated |-> TRUE]
    /\ UNCHANGED <<shape_input, shape, planar>>
    /\ UNCHANGED <<partyWallVars, surfaceVars, rotationVars, warningsVars, containerVars>>

NextShape ==
    \/ ConstructShape
    \/ IsPlanar
    \/ UpdateEnvelope

SpecShape == InitShape /\ [][NextShape]_vars

----------------------------------------------------------------------------
(* _rotate_polygon_around_point_in_x_y and _get_collision_unrotated on     *)
(* their own.  The angles have cosine c / l and sine s / l with l a whole  *)
(* number, and the point lies at whole multiples of l from the rotation    *)
(* centre in x and y, so that all coordinates are whole numbers.           *)

\* the point is at most this many times l away from the centre, along x and y
MaxOffset == 2

RotationAngles ==
    {<<1, 0>>, <<0, 1>>, <<-1, 0>>, <<3, 4>>, <<4, -3>>, <<-3, 4>>, <<5, 12>>,
     <<-12, -5>>}

RotationCentres == {<<0, 0, 0>>, <<200, 100, 0>>, <<7, -3, 50>>}

AngleLength(rot_angle) ==
    ISqrt(rot_angle[1] * rot_angle[1] + rot_angle[2] * rot_angle[2])

InitRotation ==
    /\ \E rot_angle \in RotationAngles : \E rotation_center \in RotationCentres :
       \E a \in (-MaxOffset)..MaxOffset : \E b \in (-MaxOffset)..MaxOffset :
       \E z \in {0, 100} :
          rot_input = [point |-> <<rotation_center[1] + a * AngleLength(rot_angle),
                                   rotation_center[2] + b * AngleLength(rot_angle), z>>,
                       rotation_center |-> rotation_center,
                       rot_angle |-> rot_angle]
    /\ rot_there = None /\ rot_back = None /\ rot_collision = None
    /\ SurfaceIdle
    /\ WarningsIdle
    /\ buildings = <<>>
    /\ ShapeIdle
    /\ ContainersIdle
    /\ NoCall

\* _rotate_polygon_around_point_in_x_y([point], rotation_center, rot_angle)
RotateThere ==
    /\ rot_input # None
    /\ rot_there = None
    /\ rot_there' = _rotate_polygon_around_point_in_x_y(
                        <<rot_input.point>>, rot_input.rotation_center,
                        rot_input.rot_angle)
    /\ UNCHANGED <<rot_input, rot_back, rot_collision>>
    /\ UNCHANGED <<partyWallVars, surfaceVars, warningsVars, shapeVars, containerVars>>

\* _rotate_polygon_around_point_in_x_y(rotated, rotation_center, -rot_angle)
RotateBack ==
    /\ rot_there # None
    /\ rot_back = None
    /\ rot_back' = _rotate_polygon_around_point_in_x_y(
                       rot_there, rot_input.rotation_center,
                       NegAngle(rot_input.rot_angle))
    /\ UNCHANGED <<rot_input, rot_there, rot_collision>>
    /\ UNCHANGED <<partyWallVars, surfaceVars, warningsVars, shapeVars, containerVars>>

\* _get_collision_unrotated on the rectangle in the plane y = target_y that
\* has the rotated point as a corner and sides of length 1
Unrotate ==
    /\ rot_there # None
    /\ rot_collision = None
    /\ rot_collision' =
           <<_get_collision_unrotated(
                 {<<rot_there[1][1], rot_there[1][1] + 1,
                    rot_there[1][3], rot_there[1][3] + 1>>},
                 rot_input.rotation_center, rot_input.rot_angle, rot_there[1][2])>>
    /\ UNCHANGED <<rot_input, rot_there, rot_back>>
    /\ UNCHANGED <<partyWallVars, surfaceVars, warningsVars, shapeVars, containerVars>>

NextRotation ==
    \/ RotateThere
    \/ RotateBack
    \/ Unrotate

SpecRotation == InitRotation /\ [][NextRotation]_vars

----------------------------------------------------------------------------
(* configure_warnings and warn.  citydpc.util.citydpcWarnings binds the    *)
(* names WARN_ONCE_PER_CATEGORY and SUPPRESSED_WARNING_CATEGORIES with     *)
(* "from ..config import" when it is imported; configure_warnings assigns  *)
(* to the attributes of citydpc.config.  A value that may be None is the   *)
(* empty tuple for None and <<v>> for v.                                   *)

\* calls of warn that are followed after a configure_warnings call
MaxWarnCalls == 3

Categories == {"UserWarning", "DeprecationWarning"}

InitWarnings ==
    /\ WarningsIdle
    /\ SurfaceIdle
    /\ RotationIdle
    /\ buildings = <<>>
    /\ ShapeIdle
    /\ ContainersIdle
    /\ NoCall

\* the first import of citydpc.util.citydpcWarnings, citydpcWarnings.py:5-12
ImportWarnings ==
    /\ warnings_module = None
    /\ warnings_module' =
           [WARN_ONCE_PER_CATEGORY |-> config_module.WARN_ONCE_PER_CATEGORY,
            SUPPRESSED_WARNING_CATEGORIES |-> config_module.SUPPRESSED_WARNING_CATEGORIES,
            _WARNED_CATEGORIES |-> {}]
    /\ UNCHANGED <<config_module, configured, warn_log>>
    /\ UNCHANGED <<partyWallVars, surfaceVars, rotationVars, shapeVars, containerVars>>

\* configure_warnings(warn_always, suppress_warnings), __init__.py:9-33
configure_warnings ==
    /\ \E warn_always \in {None, <<TRUE>>, <<FALSE>>} :
       \E suppress_warnings \in {None} \cup {<<c>> : c \in SUBSET Categories} :
          /\ config_module' =
                 [WARN_ONCE_PER_CATEGORY |->
                     IF warn_always # None THEN ~warn_always[1]
                     ELSE config_module.WARN_ONCE_PER_CATEGORY,
                  SUPPRESSED_WARNING_CATEGORIES |->
                     IF suppress_warnings # None THEN suppress_warnings[1]
                     ELSE config_module.SUPPRESSED_WARNING_CATEGORIES]
          /\ configured' = IF warn_always # None THEN warn_always ELSE configured
          /\ warn_log' = IF warn_always # None THEN <<>> ELSE warn_log
    /\ UNCHANGED warnings_module
    /\ UNCHANGED <<partyWallVars, surfaceVars, rotationVars, shapeVars, containerVars>>

\* warn(message, category), citydpcWarnings.py:15-49: every path after line
\* 29 ends in a call of warnings.warn
warn ==
    /\ warnings_module # None
    /\ Len(warn_log) < MaxWarnCalls
    /\ \E category \in Categories :
          LET emitted ==
                  /\ category \notin warnings_module.SUPPRESSED_WARNING_CATEGORIES
                  /\ ~(/\ warnings_module.WARN_ONCE_PER_CATEGORY
                       /\ category \in warnings_module._WARNED_CATEGORIES)
          IN  /\ warnings_module' =
                     IF emitted
                     THEN [warnings_module EXCEPT
                              !._WARNED_CATEGORIES = @ \cup {category}]
                     ELSE warnings_module
              /\ warn_log' =
                     Append(warn_log,
                            [category |-> category,
                             suppressed |->
                                 category \in config_module.SUPPRESSED_WARNING_CATEGORIES,
                             emitted |-> emitted])
    /\ UNCHANGED <<config_module, configured>>
    /\ UNCHANGED <<partyWallVars, surfaceVars, rotationVars, shapeVars, containerVars>>

NextWarnings ==
    \/ ImportWarnings
    \/ configure_warnings
    \/ warn

SpecWarnings == InitWarnings /\ [][NextWarnings]_vars

----------------------------------------------------------------------------
(* AbstractBuilding.add_geometry, get_geometry and remove_geometry on one  *)
(* building.  The GeometryGML object given to the n-th call is n.          *)

\* calls of add_geometry and remove_geometry on the building
MaxGeometryCalls == 4

GeometryKeys == {"0", "1", "2", "lod2"}

\* str(n)
Str(n) == <<"0", "1", "2", "3", "4", "5", "6", "7", "8", "9">>[n + 1]

\* d[key] = value
DictSet(d, key, value) ==
    [x \in DOMAIN d \cup {key} |-> IF x = key THEN value ELSE d[x]]

\* del d[key]
DictDel(d, key) == [x \in DOMAIN d \ {key} |-> d[x]]

InitBuilding ==
    /\ geometries = EmptyFunction
    /\ last_call = [n |-> 0]
    /\ geometry = None
    /\ dataset_buildings = None
    /\ ShapeIdle
    /\ SurfaceIdle
    /\ RotationIdle
    /\ WarningsIdle
    /\ buildings = <<>>
    /\ NoCall

\* building.add_geometry(geometry, geomKey), abstractBuilding.py:85-109
add_geometry ==
    /\ last_call.n < MaxGeometryCalls
    /\ \E geomKey \in {None} \cup {<<x>> : x \in GeometryKeys} :
          LET given == last_call.n + 1
              key == IF geomKey = None THEN Str(Cardinality(DOMAIN geometries))
                     ELSE geomKey[1]
              refused == geomKey # None /\ geomKey[1] \in DOMAIN geometries
          IN  /\ geometries' = IF refused THEN geometries
                               ELSE DictSet(geometries, key, given)
              /\ last_call' = [n |-> given, op |-> "add_geometry",
                               geomKey |-> geomKey,
                               returned |-> IF refused THEN None ELSE <<key>>]
    /\ UNCHANGED <<geometry, dataset_buildings>>
    /\ UNCHANGED <<partyWallVars, surfaceVars, rotationVars, warningsVars, shapeVars>>

\* building.get_geometry(geomKey), abstractBuilding.py:111-131: <<geometry>>
\* or None
get_geometry(stored, geomKey) ==
    IF geomKey \in DOMAIN stored THEN <<stored[geomKey]>> ELSE None

\* building.remove_geometry(geomKey), abstractBuilding.py:133-142
remove_geometry ==
    /\ last_call.n < MaxGeometryCalls
    /\ \E geomKey \in GeometryKeys :
          /\ geometries' = IF geomKey \in DOMAIN geometries
                           THEN DictDel(geometries, geomKey)
                           ELSE geometries
          /\ last_call' = [n |-> last_call.n + 1, op |-> "remove_geometry",
                           geomKey |-> <<geomKey>>, returned |-> None]
    /\ UNCHANGED <<geometry, dataset_buildings>>
    /\ UNCHANGED <<partyWallVars, surfaceVars, rotationVars, warningsVars, shapeVars>>

NextBuilding ==
    \/ add_geometry
    \/ remove_geometry

SpecBuilding == InitBuilding /\ [][NextBuilding]_vars

----------------------------------------------------------------------------
(* GeometryGML.add_surface on one geometry.  The SurfaceGML object given   *)
(* to the n-th call is [n, surface_id]; a surface_id or solidID that is    *)
(* None is the empty tuple, an id x is <<x>>.                              *)

\* calls of add_surface on the geometry
MaxSurfaceCalls == 3

GeometryTypes ==
    {"MultiSurface", "CompositeSurface", "Solid", "MultiSolid", "CompositeSolid"}

InitGeometry ==
    /\ \E type \in GeometryTypes :
          geometry = [type |-> type, surfaces |-> <<>>, solids |-> EmptyFunction]
    /\ last_call = [n |-> 0]
    /\ geometries = None
    /\ dataset_buildings = None
    /\ ShapeIdle
    /\ SurfaceIdle
    /\ RotationIdle
    /\ WarningsIdle
    /\ buildings = <<>>
    /\ NoCall

\* GeometryGML.get_all_surface_ids, geometry.py:71-79
get_all_surface_ids(surfaces) == [n \in DOMAIN surfaces |-> surfaces[n].surface_id]

\* variant: no surface_id counts as present
AlreadyPresent_never(surface_id, surfaces) == FALSE

\* geometry.py:46-49
AlreadyPresent(surface_id, surfaces) ==
    /\ surface_id # None
    /\ surface_id \in Range(get_all_surface_ids(surfaces))

\* geometry.add_surface(surface, solidID), geometry.py:34-69
add_surface ==
    /\ last_call.n < MaxSurfaceCalls
    /\ \E surface_id \in {None, <<"s1">>, <<"s2">>} :
       \E solidID \in {None, <<"solid1">>} :
          LET surface == [n |-> last_call.n + 1, surface_id |-> surface_id]
              appended == [geometry EXCEPT !.surfaces = Append(@, surface)]
          IN  IF AlreadyPresent(surface_id, geometry.surfaces)
              THEN /\ geometry' = geometry
                   /\ last_call' = [n |-> surface.n, op |-> "add_surface",
                                    surface_id |-> surface_id, solidID |-> solidID,
                                    error |-> "already present"]
              ELSE IF solidID = None
              THEN /\ geometry' = appended
                   /\ last_call' = [n |-> surface.n, op |-> "add_surface",
                                    surface_id |-> surface_id, solidID |-> solidID,
                                    error |-> ""]
              ELSE IF geometry.type \in {"Solid", "CompositeSolid", "MultiSolid"}
              THEN /\ geometry' =
                          [appended EXCEPT !.solids =
                              DictSet(@, solidID[1],
                                      IF solidID[1] \in DOMAIN @
                                      THEN Append(@[solidID[1]], surface)
                                      ELSE <<surface>>)]
                   /\ last_call' = [n |-> surface.n, op |-> "add_surface",
                                    surface_id |-> surface_id, solidID |-> solidID,
                                    error |-> ""]
              ELSE /\ geometry' = appended
                   /\ last_call' = [n |-> surface.n, op |-> "add_surface",
                                    surface_id |-> surface_id, solidID |-> solidID,
                                    error |-> "does not support solid ids"]
    /\ UNCHANGED <<geometries, dataset_buildings>>
    /\ UNCHANGED <<partyWallVars, surfaceVars, rotationVars, warningsVars, shapeVars>>

NextGeometry == add_surface

SpecGeometry == InitGeometry /\ [][NextGeometry]_vars

----------------------------------------------------------------------------
(* Dataset.add_building and Dataset.__setitem__ on one dataset.  The       *)
(* Building object given to the n-th call is [n, gml_id].                  *)

\* calls of add_building and __setitem__ on the dataset
MaxDatasetCalls == 4

BuildingIds == {"b1", "b2", "b3"}

InitDataset ==
    /\ dataset_buildings = EmptyFunction
    /\ last_call = [n |-> 0]
    /\ geometries = None
    /\ geometry = None
    /\ ShapeIdle
    /\ SurfaceIdle
    /\ RotationIdle
    /\ WarningsIdle
    /\ buildings = <<>>
    /\ NoCall

\* variant: every key is accepted
KeyMatches_any(key, value) == TRUE

\* dataset.py:81
KeyMatches(key, value) == key = value.gml_id

\* Dataset.__setitem__, dataset.py:80-84: the buildings after the call
\* and the exception it raised
setitem(stored, key, value) ==
    IF KeyMatches(key, value)
    THEN [buildings |-> DictSet(stored, key, value), raised |-> ""]
    ELSE [buildings |-> stored, raised |-> "ValueError"]

\* dataset.add_building(building, force), dataset.py:59-75
add_building ==
    /\ last_call.n < MaxDatasetCalls
    /\ \E gml_id \in BuildingIds : \E force \in BOOLEAN :
          LET building == [n |-> last_call.n + 1, gml_id |-> gml_id]
              after ==
                  IF building.gml_id \in DOMAIN dataset_buildings /\ ~force
                  THEN [buildings |-> dataset_buildings, raised |-> ""]
                  ELSE setitem(dataset_buildings, building.gml_id, building)
          IN  /\ dataset_buildings' = after.buildings
              /\ last_call' = [n |-> building.n, op |-> "add_building",
                               key |-> building.gml_id, value |-> building,
                               force |-> force, raised |-> after.raised]
    /\ UNCHANGED <<geometries, geometry>>
    /\ UNCHANGED <<partyWallVars, surfaceVars, rotationVars, warningsVars, shapeVars>>

\* dataset[key] = value, dataset.py:80-84
__setitem__ ==
    /\ last_call.n < MaxDatasetCalls
    /\ \E key \in BuildingIds : \E gml_id \in BuildingIds :
          LET value == [n |-> last_call.n + 1, gml_id |-> gml_id]
              after == setitem(dataset_buildings, key, value)
          IN  /\ dataset_buildings' = after.buildings
              /\ last_call' = [n |-> value.n, op |-> "__setitem__",
                               key |-> key, value |-> value,
                               force |-> FALSE, raised |-> after.raised]
    /\ UNCHANGED <<geometries, geometry>>
    /\ UNCHANGED <<partyWallVars, surfaceVars, rotationVars, warningsVars, shapeVars>>

NextDataset ==
    \/ add_building
    \/ __setitem__

SpecDataset == InitDataset /\ [][NextDataset]_vars

----------------------------------------------------------------------------
(* Properties.  Lengths are in units of 0.05 and areas in units of 0.0025: *)
(* an area of 5 is 2000, an area of 50 is 20000, a distance of 0.15 is 3.  *)

\* the records returned so far, by get_party_walls and by _find_party_walls
ReturnedRecords ==
    UNION {Range(results[n]) : n \in DOMAIN results}
    \cup UNION {Range(direct[n].party_walls) : n \in DOMAIN direct}

\* the wall or closure surface of an entity with the given polygon id
SurfaceOf(id, polygon_id) ==
    CHOOSE s \in Range(get_surfaces(EntityOf(id), {"WallSurface", "ClosureSurface"})) :
        s.polygon_id = polygon_id

DatasetIs(ids) == {b.gml_id : b \in Range(buildings)} = ids

DirectOn(id_0, id_1) ==
    /\ direct # <<>>
    /\ direct[1].b0 = id_0
    /\ direct[1].b1 = id_1

\* all points of the surface have the x coordinate x
InPlaneX(surface, x) == \A pt \in Range(surface.gml_surface_2array) : pt[1] = x

\* C1: for the dataset of the two boxes A (x in [0,10]) and B (x in [10,20]),
\* both with y in [0,10] and z in [0,5], get_party_walls returns exactly one
\* record; its area is 50 and its surfaces are the walls of A and of B in the
\* plane x = 10.
C1_SharedFaceOneRecord ==
    (/\ Range(buildings)
            = {Built(id, [geometries |-> <<Box(id, x, x + 200, 0, 200, 0, 100)>>,
                          parts |-> <<>>]) :
                  <<id, x>> \in {<<"A", 0>>, <<"B", 200>>}}
     /\ pc = "done")
    => \A n \in DOMAIN results :
          /\ Len(results[n]) = 1
          /\ results[n][1].area = 20000
          /\ {results[n][1].b0, results[n][1].b1} = {"A", "B"}
          /\ InPlaneX(SurfaceOf(results[n][1].b0, results[n][1].w0), 200)
          /\ InPlaneX(SurfaceOf(results[n][1].b1, results[n][1].w1), 200)

C1_Witness ==
    /\ DatasetIs({"A", "B"})
    /\ pc = "done"
    /\ Len(results) >= 1
    /\ Len(results[1]) = 1

\* C2: every record returned by _find_party_walls and by get_party_walls has
\* an area strictly greater than 5; a pair of boxes whose only facing walls
\* overlap in a square of 2 by 2 (A and S4) yields no record, a pair whose
\* walls overlap in 3 by 2 (A and S6) yields exactly one record.
C2_AreaAboveFive ==
    /\ \A rec \in ReturnedRecords : rec.area > 2000
    /\ DirectOn("A", "S4") \/ DirectOn("S4", "A") => direct[1].party_walls = <<>>
    /\ DirectOn("A", "S6") \/ DirectOn("S6", "A") =>
          /\ Len(direct[1].party_walls) = 1
          /\ direct[1].party_walls[1].area = 2400

C2_Witness ==
    /\ DirectOn("A", "S6")
    /\ Len(direct[1].party_walls) = 1

\* the means of the rotated y coordinates of the two surfaces, in the frame
\* of the first, differ by more than tol units
MeansDifferBy(surface_0, surface_1, tol) ==
    LET r0 == Rotated(Frame(surface_0), surface_0)
        r1 == Rotated(Frame(surface_0), surface_1)
        y0 == SumSeq([n \in DOMAIN r0 |-> r0[n][2]])
        y1 == SumSeq([n \in DOMAIN r1 |-> r1[n][2]])
    IN  Abs(y0 * Len(r1) - y1 * Len(r0)) > tol * Len(r0) * Len(r1)

\* C3: no record pairs walls whose mean rotated y coordinates differ by more
\* than 0.15; the facing walls of A and B01, of identical extent and 0.10
\* apart, yield a record, those of A and B02, 0.20 apart, yield none; the
\* dataset of A and B03, whose facing walls are 0.3 apart, yields no record.
C3_OffsetGate ==
    /\ \A rec \in ReturnedRecords :
          ~MeansDifferBy(SurfaceOf(rec.b0, rec.w0), SurfaceOf(rec.b1, rec.w1), 3)
    /\ DirectOn("A", "B01") =>
          \E n \in DOMAIN direct[1].party_walls :
              /\ direct[1].party_walls[n].w0 = "A_w2"
              /\ direct[1].party_walls[n].w1 = "B01_w1"
    /\ DirectOn("B01", "A") =>
          \E n \in DOMAIN direct[1].party_walls :
              /\ direct[1].party_walls[n].w0 = "B01_w1"
              /\ direct[1].party_walls[n].w1 = "A_w2"
    /\ DirectOn("A", "B02") \/ DirectOn("B02", "A") => direct[1].party_walls = <<>>
    /\ DatasetIs({"A", "B03"}) =>
          /\ all_party_walls = <<>>
          /\ \A n \in DOMAIN results : results[n] = <<>>

C3_Witness ==
    /\ DirectOn("A", "B01")
    /\ Len(direct[1].party_walls) = 1
    /\ MeansDifferBy(SurfaceOf("A", "A_w2"), SurfaceOf("B01", "B01_w1"), 1)

\* the square of the cosine of the angle between n0 and n1, truncated to 8
\* decimal digits
Cos2(n0, n1) == Frac(Vdot(n0, n1) * Vdot(n0, n1), Vdot(n0, n0) * Vdot(n1, n1), 8)[1]

Parallel(n0, n1) == n0 = n1 \/ n0 = Vneg(n1)

\* C4, as stated: no record pairs two surfaces whose unit normals have a dot
\* product of absolute value below cos(15 degrees); the square of cos(15
\* degrees) is 0.93301270...
C4_NoPairBelowCos15 ==
    \A rec \in ReturnedRecords :
        LET n0 == SurfaceOf(rec.b0, rec.w0).normal_uni
            n1 == SurfaceOf(rec.b1, rec.w1).normal_uni
        IN  Parallel(n0, n1) \/ Cos2(n0, n1) >= 93301270

\* C4, amended: no record pairs two surfaces whose unit normals have a dot
\* product of absolute value at or below 0.9659, the value the gate compares
\* with; its square is 0.93296281.
C4_NoPairBelowGateValue ==
    \A rec \in ReturnedRecords :
        LET n0 == SurfaceOf(rec.b0, rec.w0).normal_uni
            n1 == SurfaceOf(rec.b1, rec.w1).normal_uni
        IN  Parallel(n0, n1) \/ Cos2(n0, n1) >= 93296281

\* a record of two surfaces that are not parallel
C4_Witness ==
    \E rec \in ReturnedRecords :
        LET n0 == SurfaceOf(rec.b0, rec.w0).normal_uni
            n1 == SurfaceOf(rec.b1, rec.w1).normal_uni
        IN  ~Parallel(n0, n1) /\ Cos2(n0, n1) < 93301270

\* the two surfaces lie in one plane
Coplanar(surface_0, surface_1) ==
    /\ Parallel(surface_0.normal_uni, surface_1.normal_uni)
    /\ Vdot(Vsub(surface_1.gml_surface_2array[1], surface_0.gml_surface_2array[1]),
            surface_0.normal_uni) = 0

\* the records of the call with the two entities of d swapped
SwappedRecords(d) ==
    Range(_find_party_walls(EntityOf(d.b1), EntityOf(d.b0), freeWalls).party_walls)

WallsOf(id) == Range(get_surfaces(EntityOf(id), {"WallSurface", "ClosureSurface"}))

\* C6: when the intersection of a wall pair that passed the normal gate and
\* the offset gate has two or more disjoint pieces, _find_party_walls emits
\* exactly one record for each piece of area above 5 and none for the others,
\* whatever geometry type the clipping returns.
C6_OneRecordPerPiece ==
    \A d \in Range(direct) :
        d.raised = "" =>
        \A surface_0 \in WallsOf(d.b0) : \A surface_1 \in WallsOf(d.b1) :
            (/\ PassesGates(surface_0, surface_1)
             /\ Cardinality(Pieces(PairIntersection(surface_0, surface_1).cells)) >= 2)
            => Cardinality({n \in DOMAIN d.party_walls :
                               /\ d.party_walls[n].w0 = surface_0.polygon_id
                               /\ d.party_walls[n].w1 = surface_1.polygon_id})
               = Cardinality({piece \in Pieces(PairIntersection(surface_0, surface_1).cells) :
                                 PieceArea(piece) > 2000})

\* C7: during one run of get_party_walls the resolver is called at most once
\* for each unordered pair of entities, and the list returned has no record
\* twice.
C7_PairResolvedOnce ==
    /\ \A a \in DOMAIN calls : \A b \in DOMAIN calls :
          a # b => {calls[a].b0, calls[a].b1} # {calls[b].b0, calls[b].b1}
    /\ \A a \in DOMAIN all_party_walls : \A b \in DOMAIN all_party_walls :
          a # b => all_party_walls[a] # all_party_walls[b]

\* the number of times x occurs in the list
Count(list, x) == Cardinality({n \in DOMAIN list : list[n] = x})

\* C8: two calls of get_party_walls in a row on the same dataset return the
\* same records, up to their order.
C8_SecondRunSameRecords ==
    \A a \in DOMAIN results : \A b \in DOMAIN results :
        \A rec \in Range(results[a]) \cup Range(results[b]) :
            Count(results[a], rec) = Count(results[b], rec)

C8_Witness ==
    /\ Len(results) = 2
    /\ results[1] # <<>>
    /\ pc = "done"

\* the ground surfaces of the entity itself
GroundsOf(id) == Range(get_surfaces(EntityOf(id), {"GroundSurface"}))

\* the two rectangles are at most 0.15 apart
Within015(coor_0, coor_1) ==
    LET a  == BBox(coor_0)
        b  == BBox(coor_1)
        gx == SetMax({0, b.x1 - a.x2, a.x1 - b.x2})
        gy == SetMax({0, b.y1 - a.y2, a.y1 - b.y2})
    IN  gx * gx + gy * gy <= 9

\* C9: the resolver is called for two entities only after a ground polygon
\* of the first, buffered by 0.15, was found to meet a ground polygon of the
\* second; it is never called for two entities whose ground polygons are all
\* farther apart.
C9_ResolverOnlyForNearGrounds ==
    \A n \in DOMAIN calls :
        \E g0 \in GroundsOf(calls[n].b0) : \E g1 \in GroundsOf(calls[n].b1) :
            /\ g0.polygon_id = calls[n].g0
            /\ g1.polygon_id = calls[n].g1
            /\ Within015(g0.gml_surface_2array, g1.gml_surface_2array)

\* C10: when the wall and closure surfaces of a building include an invalid
\* surface, get_party_walls and _find_party_walls complete without raising
\* and no record has the invalid surface on either side.
C10_InvalidSurfaceSkipped ==
    (\E e \in Entities :
        \E s \in Range(get_surfaces(e, {"WallSurface", "ClosureSurface"})) : ~s.isSurface)
    => /\ raised = ""
       /\ \A d \in Range(direct) : d.raised = ""
       /\ \A rec \in ReturnedRecords :
             /\ SurfaceOf(rec.b0, rec.w0).isSurface
             /\ SurfaceOf(rec.b1, rec.w1).isSurface

\* the surfaces of the entity that occur in a record of the list, on either
\* side
WallsInRecords(id, records) ==
    {rec.w0 : rec \in {r \in Range(records) : r.b0 = id}}
    \cup {rec.w1 : rec \in {r \in Range(records) : r.b1 = id}}

\* C11: when a run of get_party_walls has returned, the freeWalls of every
\* entity is its allWalls less the number of its surfaces that occur in at
\* least one returned record: one decrement for each such wall, however many
\* records the wall occurs in.
C11_OneDecrementPerWall ==
    (pc = "done" /\ raised = "")
    => \A id \in DOMAIN freeWalls :
          allWalls[id] - freeWalls[id]
          = Cardinality(WallsInRecords(id, all_party_walls))

\* C12: when a run of get_party_walls has returned, every building and every
\* building part of the dataset has allWalls equal to the number of its wall
\* surfaces and a freeWalls that is a number, not None; this includes the
\* entities without a party wall and those without 3D geometry.
C12_CountersOfEveryEntity ==
    (pc = "done" /\ raised = "")
    => \A e \in Entities :
          /\ QualifiedId(e) \in DOMAIN allWalls
          /\ allWalls[QualifiedId(e)] = NumberOfWalls(e)
          /\ QualifiedId(e) \in DOMAIN freeWalls

\* C13: for every entity of the dataset has_3Dgeometry() is True exactly when
\* the entity has a roof surface, a ground surface and a wall or closure
\* surface among all the surfaces get_surfaces returns for it, whatever
\* geometries those surfaces belong to.
C13_Has3DgeometryOverAllSurfaces ==
    \A e \in Entities :
        has_3Dgeometry(e)
        <=> /\ get_surfaces(e, {"RoofSurface"}) # <<>>
            /\ get_surfaces(e, {"GroundSurface"}) # <<>>
            /\ get_surfaces(e, {"WallSurface", "ClosureSurface"}) # <<>>

\* C14: a SurfaceGML object whose ring keeps fewer than 4 points after the
\* removal of the points on a line has isSurface False, normal_uni None and
\* surface_area None; one whose ring keeps 4 points or more has isSurface
\* True, a normal vector and an area.
C14_ValidFromFourKeptPoints ==
    constructed # None =>
        IF Len(constructed.gml_surface) < 4
        THEN /\ ~constructed.isSurface
             /\ constructed.normal_uni = None
             /\ constructed.surface_area = None
        ELSE /\ constructed.isSurface
             /\ Len(constructed.normal_uni) = 3
             /\ Len(constructed.surface_area) = 1

\* a surface was constructed from a ring of six points of which one was
\* removed
C14_Witness ==
    /\ constructed # None
    /\ constructed.isSurface
    /\ Len(surface_input) = 6
    /\ Len(constructed.gml_surface) = 5
    /\ constructed.surface_area # <<0>>

\* the first three points are on one line
Collinear3(points) ==
    Vcross(Vsub(points[2], points[1]), Vsub(points[3], points[1])) = <<0, 0, 0>>

\* C19: a SurfaceGML object whose first three kept points are on one line is
\* marked invalid (isSurface False), and a surface with the zero vector as
\* its normal never passes the normal test of _find_party_walls.
C19_CollinearStartIsInvalid ==
    /\ (/\ constructed # None
        /\ Len(constructed.gml_surface) >= 4
        /\ Collinear3(constructed.gml_surface))
       => ~constructed.isSurface
    /\ (normal_test # None /\ constructed.normal_uni = <<0, 0, 0>>)
       => normal_test.outcome # "pass"

\* the points of the ring at the positions from n on that are in keep
RECURSIVE PointsAt(_, _, _)
PointsAt(ring, keep, n) ==
    IF n > Len(ring) THEN <<>>
    ELSE (IF n \in keep THEN <<ring[n]>> ELSE <<>>) \o PointsAt(ring, keep, n + 1)

\* the ring without its intermediate points that are within 0.01 of the
\* segment between the point before and the point after them in the ring
WithoutPointsOnLine(ring) ==
    PointsAt(ring,
             {n \in DOMAIN ring :
                 \/ n \in {1, Len(ring)}
                 \/ ~check_if_points_on_line(ring[n], ring[n - 1], ring[n + 1])},
             1)

\* C20: the ring a SurfaceGML object keeps is the ring given without the
\* intermediate points that lie within 0.01 of the segment between their two
\* neighbours in the ring given, the other points in their order; this also
\* when several such points follow each other or when such a point has the
\* coordinates of another point of the ring.
C20_KeepsAllButPointsOnLine ==
    constructed # None => constructed.gml_surface = WithoutPointsOnLine(surface_input)

\* the entity has a ground surface with this polygon_id
OwnsGround(id, polygon_id) == \E g \in GroundsOf(id) : g.polygon_id = polygon_id

\* C15: every ground polygon collected by get_party_walls is tagged with the
\* entity that owns it, a ground surface of a building part with that part;
\* so the resolver is called on the entities that own the two ground
\* polygons that passed the prefilter, the part itself where the ground is
\* that of a part.
C15_GroundTaggedWithOwner ==
    /\ \A n \in DOMAIN polys_in_building_0 :
          OwnsGround(polys_in_building_0[n].parent, polys_in_building_0[n].poly_id)
    /\ \A n \in DOMAIN calls :
          /\ OwnsGround(calls[n].b0, calls[n].g0)
          /\ OwnsGround(calls[n].b1, calls[n].g1)

C17_RotationRoundTrip ==
    /\ rot_there # None => rot_there[1][3] = rot_input.point[3]
    /\ rot_back # None => rot_back = <<rot_input.point>>
    /\ rot_collision # None => rot_input.point \in rot_collision[1]

\* a point off the centre was turned by the angle of cosine 3/5 and sine 4/5
\* and back, both ways
C17_Witness ==
    /\ rot_back # None
    /\ rot_collision # None
    /\ rot_input.rot_angle = <<3, 4>>
    /\ rot_there[1] # rot_input.point
    /\ rot_input.point[1] # rot_input.rotation_center[1]
    /\ rot_input.point[2] # rot_input.rotation_center[2]

\* the number of calls in the log that emitted a warning of the category
Emitted(category) ==
    Cardinality({n \in DOMAIN warn_log :
                    warn_log[n].category = category /\ warn_log[n].emitted})

\* C18: after configure_warnings(warn_always=False) the calls of warn emit
\* at most one warning for each category; after
\* configure_warnings(warn_always=True) every call of warn for a category
\* that is not suppressed emits a warning.
C18_OncePerCategory ==
    /\ configured = <<FALSE>> => \A category \in Categories : Emitted(category) <= 1
    /\ configured = <<TRUE>> =>
          \A n \in DOMAIN warn_log : ~warn_log[n].suppressed => warn_log[n].emitted

\* all points lie in one plane
PointsInOnePlane(points) ==
    \A n1 \in DOMAIN points : \A n2 \in DOMAIN points : \A n3 \in DOMAIN points :
        Vdot(Vcross(Vsub(points[n1], points[1]), Vsub(points[n2], points[1])),
             Vsub(points[n3], points[1])) = 0

\* C21: for a valid surface, the warning that the surface is not planar is
\* logged during construction exactly when the points of the ring do not lie
\* in one plane, and is_planar called on the constructed object returns True
\* exactly when they do.
C21_PlanarExactlyWhenCoplanar ==
    (shape # None /\ shape.isSurface)
    => /\ shape.not_planar_warning = ~PointsInOnePlane(shape.gml_surface_2array)
       /\ planar # None => planar[1] = PointsInOnePlane(shape.gml_surface_2array)

\* C22: a surface type that is given is the surface type of the object.  If
\* none is given, the type of a valid surface is GroundSurface if its tilt is
\* 0 and its orientation is -2, WallSurface if its tilt is 90, and
\* RoofSurface otherwise; a horizontal surface is a ground if its normal
\* points down and a roof if it points up, a vertical surface is a wall.
C22_KindInferredFromTiltAndOrientation ==
    shape # None
    => /\ shape_input.surface_type # None
          => shape.surface_type = shape_input.surface_type
       /\ (shape_input.surface_type = None /\ ~shape.isSurface)
          => shape.surface_type = None
       /\ (shape_input.surface_type = None /\ shape.isSurface)
          => /\ shape.surface_type =
                    IF /\ shape.surface_tilt = <<0>>
                       /\ shape.surface_orientation = <<-2>>
                    THEN <<"GroundSurface">>
                    ELSE IF shape.surface_tilt = <<90>> THEN <<"WallSurface">>
                    ELSE <<"RoofSurface">>
             /\ shape.normal_uni = <<0, 0, -1>>
                => shape.surface_type = <<"GroundSurface">>
             /\ shape.normal_uni = <<0, 0, 1>>
                => shape.surface_type = <<"RoofSurface">>
             /\ shape.normal_uni[3] = 0 => shape.surface_type = <<"WallSurface">>

\* a horizontal surface facing up, constructed without a surface type, is a
\* roof
C22_Witness ==
    /\ shape # None
    /\ shape_input.surface_type = None
    /\ shape.isSurface
    /\ shape.surface_tilt = <<0>>
    /\ shape.surface_orientation = <<-1>>
    /\ shape.surface_type = <<"RoofSurface">>

\* C30: after update_min_max_from_surface, on the initial bounds of a
\* dataset as on bounds already updated, every point of gml_surface_2array
\* of the surface lies between minList and maxList on each axis.
C30_EnvelopeHoldsEveryPoint ==
    (envelope # None /\ envelope.updated)
    => \A n \in DOMAIN shape.gml_surface_2array : \A axis \in 1..3 :
          /\ ~Less(Bound(shape.gml_surface_2array[n][axis]),
                   envelope.lists.minList[axis])
          /\ ~Less(envelope.lists.maxList[axis],
                   Bound(shape.gml_surface_2array[n][axis]))

\* C23: no record of a list returned by get_party_walls has the same surface
\* of the same entity on both sides.
C23_NoRecordOfASurfaceWithItself ==
    \A n \in DOMAIN results : \A rec \in Range(results[n]) :
        ~(rec.b0 = rec.b1 /\ rec.w0 = rec.w1)

C25_RowsAgreeWithAttributes ==
    (pc = "done" /\ raised = "")
    => \A b \in Range(buildings) :
          /\ getDataFrame(buildings, all_party_walls)[b.gml_id].freeWalls
             = freeWalls[b.gml_id]
          /\ getDataFrame(buildings, all_party_walls)[b.gml_id].allWalls
             = allWalls[b.gml_id]

\* C26: a call of add_geometry leaves every geometry that was stored before
\* it stored under its key: get_geometry returns the same geometry for the
\* key after the call as before it.
C26_AddGeometryKeepsStored ==
    [][(last_call' # last_call /\ last_call'.op = "add_geometry")
       => \A geomKey \in DOMAIN geometries :
             get_geometry(geometries', geomKey) = get_geometry(geometries, geomKey)]_vars

\* no two surfaces stored in the geometry have the same surface_id that is
\* not None
UniqueSurfaceIds(stored) ==
    \A n1 \in DOMAIN stored.surfaces : \A n2 \in DOMAIN stored.surfaces :
        (n1 # n2 /\ stored.surfaces[n1].surface_id # None)
        => stored.surfaces[n1].surface_id # stored.surfaces[n2].surface_id

\* C27: after every call of add_surface no two surfaces stored in the
\* geometry have the same surface_id other than None, and a call with a
\* surface_id that is already present leaves surfaces and solids as they
\* were.
C27_SurfaceIdsStayUnique ==
    [][last_call' # last_call
       => /\ UniqueSurfaceIds(geometry')
          /\ (/\ last_call'.surface_id # None
              /\ \E n \in DOMAIN geometry.surfaces :
                    geometry.surfaces[n].surface_id = last_call'.surface_id)
             => geometry' = geometry]_vars

\* a surface was refused because its surface_id is present, in a call that
\* named a solid, on a geometry that holds two surfaces
C27_Witness ==
    /\ geometry # None
    /\ last_call.n > 0
    /\ last_call.error = "already present"
    /\ last_call.solidID # None
    /\ Len(geometry.surfaces) = 2

\* C28: a call of add_surface with a solidID on a geometry whose type is not
\* Solid, CompositeSolid or MultiSolid leaves the geometry as it was.
C28_SolidIdOnSurfaceGeometryRefused ==
    [][(/\ last_call' # last_call
        /\ last_call'.solidID # None
        /\ geometry.type \notin {"Solid", "CompositeSolid", "MultiSolid"})
       => geometry' = geometry]_vars

\* C29: after every call of add_building or __setitem__ each key of
\* dataset.buildings is the gml_id of the building stored under it; a
\* __setitem__ call with a key other than value.gml_id raises ValueError and
\* leaves dataset.buildings as it was; add_building without force for an id
\* that is present leaves dataset.buildings as it was.
C29_KeysAreGmlIds ==
    [][last_call' # last_call
       => /\ \A key \in DOMAIN dataset_buildings' :
                dataset_buildings'[key].gml_id = key
          /\ (last_call'.op = "__setitem__"
              /\ last_call'.key # last_call'.value.gml_id)
             => /\ last_call'.raised = "ValueError"
                /\ dataset_buildings' = dataset_buildings
          /\ (/\ last_call'.op = "add_building"
              /\ ~last_call'.force
              /\ last_call'.key \in DOMAIN dataset_buildings)
             => dataset_buildings' = dataset_buildings]_vars

\* __setitem__ with a key other than the gml_id of the value was refused on
\* a dataset that holds a building under every id
C29_Witness ==
    /\ dataset_buildings # None
    /\ DOMAIN dataset_buildings = BuildingIds
    /\ last_call.n = MaxDatasetCalls
    /\ last_call.op = "__setitem__"
    /\ last_call.raised = "ValueError"


====
